---- MODULE Spec2Model ----
(***************************************************************************)
(* State-machine model of the sftpgo-operator controllers:                 *)
(*   - SftpGoUserReconciler.Reconcile   (internal/controller)              *)
(*   - SftpGoServerReconciler.Reconcile (internal/controller)              *)
(*   - the SFTPGo REST client           (internal/sftpgo/client.go)        *)
(* The object store (Kubernetes API) and the remote SFTPGo service are the *)
(* environment: their state is part of the model, their failures are       *)
(* inputs of the actions.                                                  *)
(***************************************************************************)
EXTENDS Integers, Sequences, FiniteSets, TLC

VARIABLES
    user,           \* SftpGoUser objects in the object store, by resource name
    server,         \* SftpGoServer objects in the object store, by namespace/name
    secret,         \* Secret objects, by namespace/name
    remote,         \* user entities held by the SFTPGo service of each server
    queue,          \* users the dispatcher holds for a reconciliation pass
    child,          \* the objects deployed for each server, by server and kind
    serverQueue,    \* servers the dispatcher holds for a reconciliation pass
    pass,           \* record of the handler invocation that made the last step
    flight          \* where each user pass that runs step by step stands

vars == <<user, server, secret, remote, queue, child, serverQueue, pass, flight>>

\* what the user controller neither reads nor writes
serverSide == <<child, serverQueue>>

----------------------------------------------------------------------------
(* Bounds of the model *)

\* largest identifier the remote service hands out
MaxId == 1
\* last second of the wall clock
MaxTime == 1
\* replicas a Deployment reports
MaxReplicas == 1
\* last second of the wall clock where a resource is followed over its life
MaxClock == 3


----------------------------------------------------------------------------
(* Names *)

Users == {"u1", "u2"}
UserNamespace == "ns1"
Namespaces == {"ns1", "ns2"}
ServerNames == {"s1"}
ServerKeys == {<<ns, n>> : ns \in Namespaces, n \in ServerNames}
Usernames == {"alice", "bob"}
Ids == 1..MaxId
Times == 1..MaxTime

AdminSecretName == "admin"
CredsSecretName == "creds"
SecretKeys == {<<ns, n>> : ns \in Namespaces, n \in {AdminSecretName, CredsSecretName}}

sftpgoUserFinalizer == "sftpgo.sftpgo.io/user-finalizer"
sftpgoServerFinalizer == "sftpgo.sftpgo.io/finalizer"

\* HTTP status codes of the remote service; 0 stands for a transport failure
\* (connection refused, timeout): the client returns the transport error.
StatusOK == 200
StatusCreated == 201
StatusNotFound == 404
TransportFailure == 0
\* what an unhealthy service may answer instead of the truthful response
RemoteFaults == {TransportFailure, 401, 500}
NoFault == StatusOK

----------------------------------------------------------------------------
(* Objects of the object store *)

\* metav1.Condition without its transition time
Condition(type, status, reason, message) ==
    [type |-> type, status |-> status, reason |-> reason, message |-> message]

\* SftpGoUserStatus of a resource no pass has written yet
EmptyUserStatus ==
    [phase |-> "", userID |-> 0, conditions |-> <<>>, lastSynced |-> 0]

\* SftpGoUserSpec: the fields the reconciler and the payload builder read.
\* passwordSecretRef / publicKeysSecretRef hold the referenced secret's name
\* ("" for a nil reference); the referenced keys are "password" and
\* "authorized_keys".
\* bytes/sec of BandwidthLimits.Upload and .Download (int64, any value is
\* admitted by the schema)
Bandwidths == {-1, 0, 1023, 1048576}

UserSpecs ==
    [username : Usernames,
     password : {"", "pw-inline"},
     passwordSecretRef : {"", CredsSecretName},
     publicKeys : {<<>>, <<"ssh-k1">>},
     publicKeysSecretRef : {"", CredsSecretName},
     bandwidthLimits : {<<>>} \cup {<<b>> : b \in [upload : Bandwidths,
                                                  download : Bandwidths]},
     serverRef : [name : ServerNames, namespace : {"", "ns2"}]]

SomeUserSpec == CHOOSE s \in UserSpecs : s.bandwidthLimits = <<>>

\* an SftpGoUser object; exists = FALSE stands for "not in the store", and
\* spec is then the manifest its owner will apply
NoUser ==
    [exists |-> FALSE, namespace |-> UserNamespace, finalizers |-> {},
     deleting |-> FALSE, spec |-> SomeUserSpec, status |-> EmptyUserStatus]

Gone(obj) == [NoUser EXCEPT !.spec = obj.spec]

NewUser(spec) ==
    [exists |-> TRUE, namespace |-> UserNamespace, finalizers |-> {},
     deleting |-> FALSE, spec |-> spec, status |-> EmptyUserStatus]

\* SftpGoServerSpec. A Go zero value is unset: "" for a string, 0 for a
\* port. replicas is a pointer: <<>> for nil, <<n>> for a value. dataVolume
\* tells whether DataVolume is there and dataVolumeSize is its Size;
\* adminSecretRef holds the secret's name ("" for nil); configSftpPort and
\* configHttpPort are Config.SFTP.Port and Config.HTTP.Port (0 when the
\* section is nil or the port is left out).
ServerSpecs ==
    [image : {"", "sftpgo:edge"},
     replicas : {<<>>, <<0>>, <<2>>},
     sftpPort : {0, 2222},
     webPort : {0, 9090},
     storageBackend : {"", "postgresql"},
     configSftpPort : {0, 2200},
     configHttpPort : {0, 9443},
     dataVolume : BOOLEAN,
     dataVolumeSize : {"", "20Gi"},
     adminSecretRef : {"", AdminSecretName}]

\* a spec that sets nothing but, at most, adminSecretRef and dataVolume
PlainServerSpec(s) ==
    /\ s.image = "" /\ s.replicas = <<>> /\ s.sftpPort = 0 /\ s.webPort = 0
    /\ s.storageBackend = "" /\ s.configSftpPort = 0 /\ s.configHttpPort = 0
    /\ s.dataVolumeSize = ""

SomeServerSpec == CHOOSE s \in ServerSpecs : PlainServerSpec(s)

EmptyServerStatus ==
    [phase |-> "", conditions |-> <<>>, replicas |-> 0, readyReplicas |-> 0,
     ports |-> [sftp |-> 0, web |-> 0, http |-> 0]]

NoServer ==
    [exists |-> FALSE, finalizers |-> {}, deleting |-> FALSE,
     spec |-> SomeServerSpec, status |-> EmptyServerStatus]

NewServer(spec) ==
    [exists |-> TRUE, finalizers |-> {}, deleting |-> FALSE, spec |-> spec,
     status |-> EmptyServerStatus]

\* the objects the server controller deploys for a server
ChildKinds == {"ConfigMap", "PersistentVolumeClaim", "Deployment", "Service"}

\* a child: its controller reference (owner), what it was built from (data)
\* and, for a Deployment, the replicas and ready replicas its status reports
NoOwner == <<>>
NoData == [kind |-> "none"]
NoChild ==
    [exists |-> FALSE, owner |-> NoOwner, data |-> NoData, replicas |-> 0,
     readyReplicas |-> 0]
NoChildren == [k \in ChildKinds |-> NoChild]

\* a Secret: Data["username"], Data["password"], Data["authorized_keys"];
\* a key that is not in Data reads as the empty value, as a Go map does.
\* authorized_keys is the raw text, held as its lines.
NoSecret ==
    [exists |-> FALSE, username |-> "", password |-> "", authorized_keys |-> <<>>]

AdminSecrets ==
    {NoSecret,
     [exists |-> TRUE, username |-> "", password |-> "", authorized_keys |-> <<>>],
     [exists |-> TRUE, username |-> "admin", password |-> "admin-pw",
      authorized_keys |-> <<>>]}

CredsSecrets ==
    {NoSecret,
     [exists |-> TRUE, username |-> "", password |-> "", authorized_keys |-> <<>>],
     [exists |-> TRUE, username |-> "", password |-> "pw-secret",
      authorized_keys |-> <<"# team keys", "", " ssh-k2 ", "ssh-k3">>]}

----------------------------------------------------------------------------
(* controllerutil / meta helpers *)

ContainsFinalizer(obj, f) == f \in obj.finalizers

AddFinalizer(obj, f) == [obj EXCEPT !.finalizers = @ \cup {f}]

RemoveFinalizer(obj, f) == [obj EXCEPT !.finalizers = @ \ {f}]

\* A SetStatusCondition that adds the entry whatever the list holds
SetStatusConditionAppending(conds, c) == Append(conds, c)

\* meta.SetStatusCondition: the entry of the same type is overwritten in
\* place, a new type is appended.
SetStatusCondition(conds, c) ==
    IF \E i \in DOMAIN conds : conds[i].type = c.type
    THEN LET first == CHOOSE i \in DOMAIN conds :
                        /\ conds[i].type = c.type
                        /\ \A j \in DOMAIN conds : conds[j].type = c.type => i <= j
         IN  [conds EXCEPT ![first] = c]
    ELSE Append(conds, c)

\* the reason of the Ready condition a status holds, "" when it holds none
ReadyReason(status) ==
    IF \E i \in DOMAIN status.conditions : status.conditions[i].type = "Ready"
    THEN LET i == CHOOSE j \in DOMAIN status.conditions :
                     status.conditions[j].type = "Ready"
         IN  status.conditions[i].reason
    ELSE ""

----------------------------------------------------------------------------
(* The remote SFTPGo service (environment) and the REST client *)

\* what the service stores for one username
NoEntity == [exists |-> FALSE, id |-> 0, password |-> "", public_keys |-> <<>>]

RemotePasswords == {"", "pw-inline", "pw-secret", "pw-old"}
RemoteKeyLists == {<<>>, <<"ssh-k1">>, <<"ssh-k2", "ssh-k3">>}

\* UserPayload: the JSON body of a create or update. A field tagged omitempty
\* travels only when it is not the zero value, so "" is "no password in the
\* body" and <<>> is "no public_keys in the body".
NoPayload == [id |-> 0, username |-> "", password |-> "", public_keys |-> <<>>]

\* The service's answer to GET /api/v2/users/{username}
RemoteGetCode(rem, username, fault) ==
    IF fault # NoFault THEN fault
    ELSE IF rem[username].exists THEN StatusOK ELSE StatusNotFound

\* The service's answer to POST /api/v2/users: the username must be free
RemotePostCode(rem, payload, fault) ==
    IF fault # NoFault THEN fault
    ELSE IF rem[payload.username].exists THEN 409 ELSE StatusCreated

\* The service's answer to PUT and DELETE /api/v2/users/{username}
RemotePutCode(rem, username, fault) ==
    IF fault # NoFault THEN fault
    ELSE IF rem[username].exists THEN StatusOK ELSE StatusNotFound

RemoteDeleteCode(rem, username, fault) ==
    IF fault # NoFault THEN fault
    ELSE IF rem[username].exists THEN StatusOK ELSE StatusNotFound

\* The service's state after a create it accepted: a fresh identifier
RemoteAfterPost(rem, payload, code, newId) ==
    IF code = StatusCreated
    THEN [rem EXCEPT ![payload.username] =
            [exists |-> TRUE, id |-> newId, password |-> payload.password,
             public_keys |-> payload.public_keys]]
    ELSE rem

\* The service's state after an update it accepted: the identifier stays, a
\* body without a password keeps the stored one, the key list is replaced.
RemoteAfterPut(rem, username, payload, code) ==
    IF code = StatusOK
    THEN [rem EXCEPT ![username] =
            [exists |-> TRUE, id |-> @.id,
             password |-> IF payload.password = "" THEN @.password
                          ELSE payload.password,
             public_keys |-> payload.public_keys]]
    ELSE rem

RemoteAfterDelete(rem, username, code) ==
    IF code = StatusOK THEN [rem EXCEPT ![username] = NoEntity] ELSE rem

\* A GetUser without the 404 case: an absent user is an error like any other
\* answer that is not 200.
GetUserNotFoundIsError(code, entity) ==
    IF code = TransportFailure THEN [user |-> NoEntity, err |-> TRUE]
    ELSE IF code # StatusOK THEN [user |-> NoEntity, err |-> TRUE]
    ELSE [user |-> entity, err |-> FALSE]

\* A GetUser that decodes no body: a user the service holds looks absent
GetUserNeverFinds(code, entity) ==
    IF code = TransportFailure THEN [user |-> NoEntity, err |-> TRUE]
    ELSE IF code \in {StatusOK, StatusNotFound}
    THEN [user |-> NoEntity, err |-> FALSE]
    ELSE [user |-> NoEntity, err |-> TRUE]

\* Client.GetUser: 404 is (nil, nil); any other non-200 answer and a
\* transport failure are errors.
GetUser(code, entity) ==
    IF code = TransportFailure THEN [user |-> NoEntity, err |-> TRUE]
    ELSE IF code = StatusNotFound THEN [user |-> NoEntity, err |-> FALSE]
    ELSE IF code # StatusOK THEN [user |-> NoEntity, err |-> TRUE]
    ELSE [user |-> entity, err |-> FALSE]

\* An upsertUser that checks the transport only, not the status code
upsertUserErrOnTransportOnly(code) == code = TransportFailure

\* Client.upsertUser (CreateUser, UpdateUser): the error it returns
upsertUserErr(code) ==
    \/ code = TransportFailure
    \/ (code # StatusOK /\ code # StatusCreated)

\* Client.DeleteUser: the error it returns
DeleteUserErr(code) ==
    \/ code = TransportFailure
    \/ code # StatusOK

\* A quotient rounded down
QuoToFloor(a, b) == a \div b

\* a / b of two int64 in Go: the quotient is truncated toward zero
Quo(a, b) == IF a >= 0 THEN a \div b ELSE -((-a) \div b)

\* UserFromCR: the payload built from the spec and the resolved credentials;
\* the bandwidths are in KB/s
UserFromCR(spec, password, publicKeys) ==
    [id |-> 0,
     username |-> spec.username,
     password |-> IF password # "" THEN password ELSE "",
     public_keys |-> IF Len(publicKeys) > 0 THEN publicKeys ELSE <<>>,
     upload_bandwidth |-> IF spec.bandwidthLimits # <<>>
                          THEN Quo(spec.bandwidthLimits[1].upload, 1024) ELSE 0,
     download_bandwidth |-> IF spec.bandwidthLimits # <<>>
                            THEN Quo(spec.bandwidthLimits[1].download, 1024) ELSE 0]

----------------------------------------------------------------------------
(* Credential and reference resolution *)

\* strings.TrimSpace on the lines the model's secrets hold
TrimSpace(line) ==
    CASE line = " ssh-k2 " -> "ssh-k2"
      [] OTHER -> line

\* strings.HasPrefix(k, "#")
HasCommentPrefix(line) == line \in {"# team keys", "#"}

\* the loop of resolvePublicKeys over the lines of the secret's value
RECURSIVE KeepKeys(_)
KeepKeys(lines) ==
    IF lines = <<>> THEN <<>>
    ELSE LET k == TrimSpace(Head(lines))
         IN  IF k # "" /\ ~HasCommentPrefix(k)
             THEN <<k>> \o KeepKeys(Tail(lines))
             ELSE KeepKeys(Tail(lines))

\* A resolution that never falls back to the user's own namespace: an unset
\* serverRef.namespace is looked up in the other namespace.
ServerRefNamespaceElsewhere(obj) ==
    IF obj.spec.serverRef.namespace = ""
    THEN CHOOSE n \in Namespaces : n # obj.namespace
    ELSE obj.spec.serverRef.namespace

\* the namespace the server reference resolves to
ServerRefNamespace(obj) ==
    IF obj.spec.serverRef.namespace = "" THEN obj.namespace
    ELSE obj.spec.serverRef.namespace

ServerRefKey(obj) == <<ServerRefNamespace(obj), obj.spec.serverRef.name>>

\* getAdminCredentials: the secret is read in the server's namespace; every
\* failure of that read (the secret is missing) is the returned error.
getAdminCredentials(key) ==
    LET ref == server[key].spec.adminSecretRef
        sec == secret[<<key[1], ref>>]
    IN  IF ref = "" THEN [username |-> "", password |-> "", err |-> FALSE]
        ELSE IF ~sec.exists THEN [username |-> "", password |-> "", err |-> TRUE]
        ELSE [username |-> sec.username, password |-> sec.password, err |-> FALSE]

\* A resolution that reads the referenced secret whenever one is named, and
\* falls back to the inline value
resolvePasswordSecretFirst(obj) ==
    IF obj.spec.passwordSecretRef # ""
    THEN LET sec == secret[<<obj.namespace, obj.spec.passwordSecretRef>>]
         IN  IF ~sec.exists THEN [value |-> "", err |-> TRUE]
             ELSE [value |-> sec.password, err |-> FALSE]
    ELSE [value |-> obj.spec.password, err |-> FALSE]

\* resolvePassword: inline value, else the referenced secret's key, else ""
resolvePassword(obj) ==
    IF obj.spec.password # "" THEN [value |-> obj.spec.password, err |-> FALSE]
    ELSE IF obj.spec.passwordSecretRef # ""
    THEN LET sec == secret[<<obj.namespace, obj.spec.passwordSecretRef>>]
         IN  IF ~sec.exists THEN [value |-> "", err |-> TRUE]
             ELSE [value |-> sec.password, err |-> FALSE]
    ELSE [value |-> "", err |-> FALSE]

\* resolvePublicKeys: inline list, else the referenced secret's lines, else none
resolvePublicKeys(obj) ==
    IF Len(obj.spec.publicKeys) > 0
    THEN [value |-> obj.spec.publicKeys, err |-> FALSE]
    ELSE IF obj.spec.publicKeysSecretRef # ""
    THEN LET sec == secret[<<obj.namespace, obj.spec.publicKeysSecretRef>>]
         IN  IF ~sec.exists THEN [value |-> <<>>, err |-> TRUE]
             ELSE [value |-> KeepKeys(sec.authorized_keys), err |-> FALSE]
    ELSE [value |-> <<>>, err |-> FALSE]

----------------------------------------------------------------------------
(* SftpGoUserReconciler.Reconcile *)

\* Failures of the object store itself, one per pass at most: the read of
\* the resource, the read of the referenced server, or the write the pass
\* ends with is answered with an error (unavailable, conflict). A secret
\* that cannot be read is the missing secret: the code treats every error
\* of that read alike.
StoreFaults == {"none", "get", "getServer", "write"}

\* What goes wrong in one pass: sf in the object store, rf1 in the first and
\* rf2 in the second request to the remote service (NoFault: the truthful
\* answer). A pass ends at its first failed read or request, so one of them
\* at most is a fault; the write of the status or finalizer may fail too.
PassFaults(storeFaults, answers) ==
    {f \in [sf : storeFaults, rf1 : answers, rf2 : answers] :
        /\ (f.rf1 # NoFault => f.rf2 = NoFault)
        /\ (f.sf \in {"get", "getServer"} => f.rf1 = NoFault /\ f.rf2 = NoFault)}

\* one request of a pass to the remote service, with the answer it got
Call(method, username, payload, code) ==
    [method |-> method, username |-> username, payload |-> payload, code |-> code]

\* What a pass did: obj is the handler's copy of the resource when it
\* returns, rem the state it leaves the remote service in, calls the remote
\* requests it sent, update the metadata write it issued ("add"/"remove" of
\* the finalizer), statusWrite whether it issued a status write, err and
\* requeue what it returned.
Result(obj, rem, calls, update, statusWrite, err, requeue) ==
    [obj |-> obj, rem |-> rem, calls |-> calls, update |-> update,
     statusWrite |-> statusWrite, err |-> err, requeue |-> requeue]

\* A status update that also forgets the remote identifier
WithStatusResettingUserID(obj, status, reason, message, phase) ==
    [obj EXCEPT !.status.conditions =
                    SetStatusCondition(@, Condition("Ready", status, reason, message)),
                !.status.phase = phase,
                !.status.userID = 0]

\* A status whose phase is set and whose conditions are left as they were
WithStatusPhaseOnly(obj, status, reason, message, phase) ==
    [obj EXCEPT !.status.phase = phase]

\* the local copy after SetStatusCondition(Ready, ...) and the phase
WithStatus(obj, status, reason, message, phase) ==
    [obj EXCEPT !.status.conditions =
                    SetStatusCondition(@, Condition("Ready", status, reason, message)),
                !.status.phase = phase]

\* err.Error() of the client's error for an answer
ErrorText(code) ==
    IF code = TransportFailure THEN "transport error" ELSE "API returned non-success"

\* A create that is never rejected
CreateNeverRejected(userPassword, publicKeys) == FALSE

\* lines 649: a new user needs a password or a public key
CreateRejected(userPassword, publicKeys) ==
    userPassword = "" /\ Len(publicKeys) = 0

\* An update whose body always has a password: a default one when the spec
\* resolves to none.
UpdatePayloadWithDefaultPassword(payload, existing, userPassword) ==
    [payload EXCEPT !.id = existing.id,
                    !.password = IF userPassword = "" THEN "pw-inline" ELSE @]

\* lines 643-646: the payload of an update
UpdatePayload(payload, existing, userPassword) ==
    [payload EXCEPT !.id = existing.id,
                    !.password = IF userPassword = "" THEN "" ELSE @]

\* A cleanup that insists on admin credentials: it fails when the server
\* exists and they cannot be resolved.
deleteUserRequiringCredentials(obj, sf, rf) ==
    LET key == ServerRefKey(obj)
        rem == remote[key]
        creds == getAdminCredentials(key)
        code == RemoteDeleteCode(rem, obj.spec.username, rf)
    IN  IF sf = "getServer" THEN [err |-> TRUE, calls |-> <<>>, rem |-> rem]
        ELSE IF ~server[key].exists THEN [err |-> FALSE, calls |-> <<>>, rem |-> rem]
        ELSE IF creds.err \/ creds.username = "" \/ creds.password = ""
        THEN [err |-> TRUE, calls |-> <<>>, rem |-> rem]
        ELSE [err |-> DeleteUserErr(code),
              calls |-> <<Call("DELETE", obj.spec.username, NoPayload, code)>>,
              rem |-> RemoteAfterDelete(rem, obj.spec.username, code)]

\* deleteUserFromSFTPGO: the error it returns and the request it sent
deleteUserFromSFTPGO(obj, sf, rf) ==
    LET key == ServerRefKey(obj)
        rem == remote[key]
        creds == getAdminCredentials(key)
        code == RemoteDeleteCode(rem, obj.spec.username, rf)
    IN  IF sf = "getServer" THEN [err |-> TRUE, calls |-> <<>>, rem |-> rem]
        ELSE IF ~server[key].exists THEN [err |-> FALSE, calls |-> <<>>, rem |-> rem]
        ELSE IF creds.err \/ creds.username = "" \/ creds.password = ""
        THEN [err |-> FALSE, calls |-> <<>>, rem |-> rem]
        ELSE [err |-> DeleteUserErr(code),
              calls |-> <<Call("DELETE", obj.spec.username, NoPayload, code)>>,
              rem |-> RemoteAfterDelete(rem, obj.spec.username, code)]

\* A deletion branch that lets the resource go whatever the cleanup
\* returned
UserDeletionWhateverCleanup(obj, sf, rf) ==
    LET d == deleteUserFromSFTPGO(obj, sf, rf)
    IN  Result(RemoveFinalizer(obj, sftpgoUserFinalizer), d.rem, d.calls,
               "remove", FALSE, d.err \/ sf = "write", FALSE)

\* lines 541-552: the deletion branch
UserDeletion(obj, sf, rf) ==
    LET d == deleteUserFromSFTPGO(obj, sf, rf)
    IN  IF d.err
        THEN Result(obj, d.rem, d.calls, "none", FALSE, TRUE, FALSE)
        ELSE Result(RemoveFinalizer(obj, sftpgoUserFinalizer), d.rem, d.calls,
                    "remove", FALSE, sf = "write", FALSE)

\* lines 627-691: get, then create or update, then the status
UserUpsertOn(rem, obj, userPassword, publicKeys, sf, rf1, rf2, newId, now) ==
    LET name == obj.spec.username
        payload == UserFromCR(obj.spec, userPassword, publicKeys)
        c1 == RemoteGetCode(rem, name, rf1)
        got == GetUser(c1, rem[name])
        existing == got.user
        get == Call("GET", name, NoPayload, c1)
        upd == UpdatePayload(payload, existing, userPassword)
        c2 == IF existing.exists THEN RemotePutCode(rem, name, rf2)
              ELSE RemotePostCode(rem, payload, rf2)
        rem2 == IF existing.exists THEN RemoteAfterPut(rem, name, upd, c2)
                ELSE RemoteAfterPost(rem, payload, c2, newId)
        write == IF existing.exists THEN Call("PUT", name, upd, c2)
                 ELSE Call("POST", name, payload, c2)
        synced == [WithStatus(obj, "True", "Synced", "", "Synced")
                     EXCEPT !.status.lastSynced = now,
                            !.status.userID = IF existing.exists THEN existing.id
                                              ELSE @]
    IN  IF got.err
        THEN Result(WithStatus(obj, "False", "APIError", ErrorText(c1), "Error"),
                    rem, <<get>>, "none", TRUE, TRUE, FALSE)
        ELSE IF ~existing.exists /\ CreateRejected(userPassword, publicKeys)
        THEN Result(WithStatus(obj, "False", "ValidationError",
                               "New user requires either password or publicKeys",
                               "Error"),
                    rem, <<get>>, "none", TRUE, FALSE, FALSE)
        ELSE IF upsertUserErr(c2)
        THEN Result(WithStatus(obj, "False", "APIError", ErrorText(c2), "Error"),
                    rem2, <<get, write>>, "none", TRUE, TRUE, FALSE)
        ELSE Result(synced, rem2, <<get, write>>, "none", TRUE, sf = "write", FALSE)

\* the same against the service of the server key as it stands
UserUpsert(obj, key, userPassword, publicKeys, sf, rf1, rf2, newId, now) ==
    UserUpsertOn(remote[key], obj, userPassword, publicKeys, sf, rf1, rf2, newId, now)

\* lines 563-573: the referenced server is not in the store
ServerNotFoundResult(obj, rem) ==
    Result(WithStatus(obj, "False", "ServerNotFound", "SftpGoServer not found",
                      "Error"),
           rem, <<>>, "none", TRUE, FALSE, FALSE)

\* An AuthNotConfigured outcome that asks to be run again
AuthNotConfiguredRetried(obj, rem) ==
    Result(WithStatus(obj, "False", "AuthNotConfigured",
                      "SftpGoServer AdminSecretRef not configured - cannot manage users via API",
                      "Pending"),
           rem, <<>>, "none", TRUE, FALSE, TRUE)

\* lines 598-608: the server names no usable admin credentials
AuthNotConfiguredResult(obj, rem) ==
    Result(WithStatus(obj, "False", "AuthNotConfigured",
                      "SftpGoServer AdminSecretRef not configured - cannot manage users via API",
                      "Pending"),
           rem, <<>>, "none", TRUE, FALSE, FALSE)

\* lines 554-625: server lookup, admin credentials, user credentials
UserSync(obj, sf, rf1, rf2, newId, now) ==
    LET key == ServerRefKey(obj)
        rem == remote[key]
        creds == getAdminCredentials(key)
        pw == resolvePassword(obj)
        keys == resolvePublicKeys(obj)
    IN  IF sf = "getServer"
        THEN Result(obj, rem, <<>>, "none", FALSE, TRUE, FALSE)
        ELSE IF ~server[key].exists
        THEN ServerNotFoundResult(obj, rem)
        ELSE IF creds.err
        THEN Result(WithStatus(obj, "False", "AuthError", "secret not found", "Error"),
                    rem, <<>>, "none", TRUE, TRUE, FALSE)
        ELSE IF creds.username = "" \/ creds.password = ""
        THEN AuthNotConfiguredResult(obj, rem)
        ELSE IF pw.err
        THEN Result(obj, rem, <<>>, "none", FALSE, TRUE, FALSE)
        ELSE IF keys.err
        THEN Result(obj, rem, <<>>, "none", FALSE, TRUE, FALSE)
        ELSE UserUpsert(obj, key, pw.value, keys.value, sf, rf1, rf2, newId, now)

\* the whole pass over the fetched resource obj
UserPass(obj, sf, rf1, rf2, newId, now) ==
    LET rem == remote[ServerRefKey(obj)]
    IN  IF sf = "get"
        THEN Result(obj, rem, <<>>, "none", FALSE, TRUE, FALSE)
        ELSE IF ~obj.exists
        THEN Result(obj, rem, <<>>, "none", FALSE, FALSE, FALSE)
        ELSE IF ~ContainsFinalizer(obj, sftpgoUserFinalizer)
        THEN Result(AddFinalizer(obj, sftpgoUserFinalizer), rem, <<>>, "add", FALSE,
                    sf = "write", sf # "write")
        ELSE IF obj.deleting
        THEN UserDeletion(obj, sf, rf1)
        ELSE UserSync(obj, sf, rf1, rf2, newId, now)

----------------------------------------------------------------------------
(* SftpGoServerReconciler.Reconcile *)

sftpgoDefaultImage == "docker.io/drakkan/sftpgo:latest"


\* An applyDefaults that takes the image and the backend from the defaults
\* whatever the spec says
applyDefaultsOverSetFields(spec) ==
    [spec EXCEPT !.image = sftpgoDefaultImage,
                 !.replicas = IF @ = <<>> THEN <<1>> ELSE @,
                 !.sftpPort = IF @ = 0 THEN 2022 ELSE @,
                 !.webPort = IF @ = 0 THEN 8080 ELSE @,
                 !.storageBackend = "sqlite"]

\* applyDefaults: a copy of the spec with the unset fields filled in
applyDefaults(spec) ==
    [spec EXCEPT !.image = IF @ = "" THEN sftpgoDefaultImage ELSE @,
                 !.replicas = IF @ = <<>> THEN <<1>> ELSE @,
                 !.sftpPort = IF @ = 0 THEN 2022 ELSE @,
                 !.webPort = IF @ = 0 THEN 8080 ELSE @,
                 !.storageBackend = IF @ = "" THEN "sqlite" ELSE @]

\* getSFTPPort, getWebPort: the port of the config section goes first
getSFTPPort(spec) ==
    IF spec.configSftpPort > 0 THEN spec.configSftpPort ELSE spec.sftpPort

getWebPort(spec) ==
    IF spec.configHttpPort > 0 THEN spec.configHttpPort ELSE spec.webPort

\* sftpgoMinimalConfig: what the rendered sftpgo.json holds, the port of its
\* sftpd binding, the driver of its data provider, create_default_admin, and
\* the port of its httpd binding
sftpgoMinimalConfig(spec, createDefaultAdmin) ==
    [sftpdPort |-> IF spec.configSftpPort > 0 THEN spec.configSftpPort
                   ELSE IF spec.sftpPort > 0 THEN spec.sftpPort ELSE 2022,
     driver |-> spec.storageBackend,
     createDefaultAdmin |-> createDefaultAdmin,
     httpdPort |-> 8080]

\* A ConfigMap whose content follows the status of the server too
configMapForServerAndStatus(s) ==
    [kind |-> "ConfigMap",
     config |-> sftpgoMinimalConfig(applyDefaults(s.spec),
                                    s.status.phase = "Running")]

\* configMapForServer: Data["sftpgo.json"]
configMapForServer(s) ==
    [kind |-> "ConfigMap",
     config |-> sftpgoMinimalConfig(applyDefaults(s.spec),
                                    applyDefaults(s.spec).adminSecretRef # "")]

\* pvcForServer, from the spec as it is stored
pvcForServer(s) ==
    [kind |-> "PersistentVolumeClaim",
     size |-> IF s.spec.dataVolumeSize # "" THEN s.spec.dataVolumeSize
              ELSE "10Gi"]

\* deploymentForServer
deploymentForServer(s) ==
    LET spec == applyDefaults(s.spec)
    IN  [kind |-> "Deployment",
         replicas |-> IF spec.replicas # <<>> THEN spec.replicas[1] ELSE 1,
         image |-> spec.image,
         sftpPort |-> getSFTPPort(spec),
         webPort |-> getWebPort(spec),
         adminSecret |-> spec.adminSecretRef,
         dataClaim |-> spec.dataVolume]

\* serviceForServer: port and target port of the two service ports
serviceForServer(s) ==
    LET spec == applyDefaults(s.spec)
    IN  [kind |-> "Service",
         sftpPort |-> getSFTPPort(spec), sftpTargetPort |-> getSFTPPort(spec),
         webPort |-> getWebPort(spec), webTargetPort |-> getWebPort(spec)]

\* A createOrUpdate whose mutation sets the content and no controller
\* reference
createOrUpdateWithoutOwner(owner, existing, desired, keepsData, fails) ==
    IF fails THEN [err |-> TRUE, child |-> existing]
    ELSE [err |-> FALSE,
          child |-> [exists |-> TRUE, owner |-> existing.owner,
                     data |-> IF keepsData /\ existing.exists THEN existing.data
                              ELSE desired,
                     replicas |-> existing.replicas,
                     readyReplicas |-> existing.readyReplicas]]

\* A createOrUpdate that takes over whatever object has the name
createOrUpdateTakingOver(owner, existing, desired, keepsData, fails) ==
    IF fails THEN [err |-> TRUE, child |-> existing]
    ELSE [err |-> FALSE,
          child |-> [exists |-> TRUE, owner |-> owner,
                     data |-> IF keepsData /\ existing.exists THEN existing.data
                              ELSE desired,
                     replicas |-> existing.replicas,
                     readyReplicas |-> existing.readyReplicas]]

\* createOrUpdate (controllerutil.CreateOrUpdate with SetControllerReference):
\* the object is read, the mutation sets its content and its controller
\* reference, and it is created or updated. It fails when the store fails and
\* when the object has another controller. keepsData: the mutation sets the
\* controller reference only, an existing object keeps its content.
createOrUpdate(owner, existing, desired, keepsData, fails) ==
    IF fails THEN [err |-> TRUE, child |-> existing]
    ELSE IF existing.exists /\ existing.owner \notin {NoOwner, owner}
    THEN [err |-> TRUE, child |-> existing]
    ELSE [err |-> FALSE,
          child |-> [exists |-> TRUE, owner |-> owner,
                     data |-> IF keepsData /\ existing.exists THEN existing.data
                              ELSE desired,
                     replicas |-> existing.replicas,
                     readyReplicas |-> existing.readyReplicas]]

\* Failures of the object store in a server pass, one per pass at most: the
\* read of the resource, the write of the finalizer, the apply of one child,
\* the read of the Deployment, the write of the status.
ServerStoreFaults ==
    {"none", "get", "write", "ConfigMap", "PersistentVolumeClaim", "Deployment",
     "getDeployment", "Service", "status"}

\* What a server pass did: obj the handler's copy of the resource when it
\* returns, kids the children it leaves, childWrites the kinds it applied (in
\* order, the failed one included), update, statusWrite, err and requeue as
\* for a user pass.
ServerResult(obj, kids, childWrites, update, statusWrite, err, requeue) ==
    [obj |-> obj, kids |-> kids, childWrites |-> childWrites, update |-> update,
     statusWrite |-> statusWrite, err |-> err, requeue |-> requeue]

\* the local copy after SetStatusCondition(Degraded, True, reason, err)
Degraded(obj, reason) ==
    [obj EXCEPT !.status.conditions =
                    SetStatusCondition(@, Condition("Degraded", "True", reason,
                                                    "apply failed"))]

\* lines 171-187: the status of a pass that applied every child
Reconciled(obj, deployment) ==
    LET spec == applyDefaults(obj.spec)
    IN  [obj EXCEPT !.status.conditions =
                        SetStatusCondition(@, Condition("Ready", "True",
                                                        "Reconciled", "")),
                    !.status.phase = "Running",
                    !.status.ports = [sftp |-> getSFTPPort(spec),
                                      web |-> getWebPort(spec),
                                      http |-> getWebPort(spec)],
                    !.status.replicas = IF deployment.replicas > 0
                                        THEN deployment.replicas ELSE @,
                    !.status.readyReplicas = IF deployment.replicas > 0
                                             THEN deployment.readyReplicas ELSE @]

\* A pass that goes on to the Deployment whatever became of the claim
pvcApplyFailureIgnored(hasPvc, err) == FALSE

\* lines 116-125: the PersistentVolumeClaim is applied when the spec has a
\* data volume, and its failure ends the pass
pvcApplyFailed(hasPvc, err) == hasPvc /\ err

\* lines 91-193: the children, one after the other, then the status
ServerApply(obj, key, kids, sf) ==
    LET cm == createOrUpdate(key, kids["ConfigMap"], configMapForServer(obj),
                             FALSE, sf = "ConfigMap")
        k1 == [kids EXCEPT !["ConfigMap"] = cm.child]
        w1 == <<"ConfigMap">>
        pvc == createOrUpdate(key, k1["PersistentVolumeClaim"], pvcForServer(obj),
                              TRUE, sf = "PersistentVolumeClaim")
        hasPvc == applyDefaults(obj.spec).dataVolume
        k2 == IF hasPvc THEN [k1 EXCEPT !["PersistentVolumeClaim"] = pvc.child]
              ELSE k1
        w2 == IF hasPvc THEN w1 \o <<"PersistentVolumeClaim">> ELSE w1
        dep == createOrUpdate(key, k2["Deployment"], deploymentForServer(obj),
                              FALSE, sf = "Deployment")
        k3 == [k2 EXCEPT !["Deployment"] = dep.child]
        w3 == w2 \o <<"Deployment">>
        svc == createOrUpdate(key, k3["Service"], serviceForServer(obj),
                              FALSE, sf = "Service")
        k4 == [k3 EXCEPT !["Service"] = svc.child]
        w4 == w3 \o <<"Service">>
    IN  IF cm.err
        THEN ServerResult(Degraded(obj, "ConfigMapError"), k1, w1, "none", TRUE,
                          TRUE, FALSE)
        ELSE IF pvcApplyFailed(hasPvc, pvc.err)
        THEN ServerResult(obj, k2, w2, "none", FALSE, TRUE, FALSE)
        ELSE IF dep.err
        THEN ServerResult(Degraded(obj, "DeploymentError"), k3, w3, "none", TRUE,
                          TRUE, FALSE)
        ELSE IF sf = "getDeployment"
        THEN ServerResult(obj, k3, w3, "none", FALSE, TRUE, FALSE)
        ELSE IF svc.err
        THEN ServerResult(obj, k4, w4, "none", FALSE, TRUE, FALSE)
        ELSE ServerResult(Reconciled(obj, k3["Deployment"]), k4, w4, "none", TRUE,
                          sf = "status", FALSE)

\* A pass that adds the finalizer and goes on to apply the children
ServerFinalizerAddedThenApplied(obj, key, kids, sf) ==
    LET r == ServerApply(AddFinalizer(obj, sftpgoServerFinalizer), key, kids, sf)
    IN  [r EXCEPT !.update = "add"]

\* lines 71-78: the finalizer is absent
ServerFinalizerAdded(obj, key, kids, sf) ==
    ServerResult(AddFinalizer(obj, sftpgoServerFinalizer), kids, <<>>, "add", FALSE,
                 sf = "write", sf # "write")

\* the whole pass over the fetched resource obj
ServerPass(obj, key, kids, sf) ==
    IF sf = "get"
    THEN ServerResult(obj, kids, <<>>, "none", FALSE, TRUE, FALSE)
    ELSE IF ~obj.exists
    THEN ServerResult(obj, kids, <<>>, "none", FALSE, FALSE, FALSE)
    ELSE IF ~ContainsFinalizer(obj, sftpgoServerFinalizer)
    THEN ServerFinalizerAdded(obj, key, kids, sf)
    ELSE IF obj.deleting
    THEN ServerResult(RemoveFinalizer(obj, sftpgoServerFinalizer), kids, <<>>,
                      "remove", FALSE, sf = "write", FALSE)
    ELSE ServerApply(obj, key, kids, sf)

----------------------------------------------------------------------------
(* The state machine *)

NoPass == [kind |-> "none"]

\* no pass runs step by step
NoFlight == <<>>

\* what the remote service may answer with: the truth, or a fault
AnyAnswer == {NoFault} \cup RemoteFaults
\* a healthy service answers with the truth
TruthOnly == {NoFault}

\* identifiers the service of a server has not handed out to a stored user
FreshIds(key) == Ids \ {remote[key][n].id : n \in Usernames}

\* the identifier the service gives to the next user it creates (the last one
\* again once the bounded range is used up)
IdChoices(key) == IF FreshIds(key) = {} THEN {MaxId} ELSE FreshIds(key)

\* metav1.Now(): not before the time the stored status holds
NowChoices(obj) == {t \in Times : t >= obj.status.lastSynced}

\* the object the store holds after the pass's write, if the store took it
Persisted(stored, res, accepted) ==
    IF ~accepted THEN stored
    ELSE IF res.update # "none"
    THEN LET o == [stored EXCEPT !.finalizers = res.obj.finalizers]
         IN  IF o.deleting /\ o.finalizers = {} THEN Gone(o) ELSE o
    ELSE IF res.statusWrite THEN [stored EXCEPT !.status = res.obj.status]
    ELSE stored

\* lines 577-582 and 774-778: the port of the base URL of the client, from
\* the server's spec as it is stored
baseURLPort(spec) == IF spec.webPort > 0 THEN spec.webPort ELSE 8080

\* One pass of the user controller for the resource named u, the object
\* store failing as in storeFaults and the remote service answering from the
\* set answers. The dispatcher runs it when u is queued; u is queued again
\* when the pass returns an error or asks for a requeue, or when its own
\* write changed the object (the watch delivers the change).
UserReconcileAt(u, storeFaults, answers, clock) ==
    /\ u \in queue
    /\ \E f \in PassFaults(storeFaults, answers), newId \in IdChoices(ServerRefKey(user[u])),
          now \in {t \in clock : t >= user[u].status.lastSynced} :
       \E res \in {UserPass(user[u], f.sf, f.rf1, f.rf2, newId, now)} :
       \E new \in {Persisted(user[u], res, f.sf # "write")} :
          /\ user' = [user EXCEPT ![u] = new]
          /\ remote' = [remote EXCEPT ![ServerRefKey(user[u])] = res.rem]
          /\ queue' = IF res.err \/ res.requeue \/ new # user[u]
                      THEN queue \cup {u} ELSE queue \ {u}
          /\ pass' = [kind |-> "user", name |-> u, storeFault |-> f.sf, calls |-> res.calls,
                      baseURLPort |-> IF res.calls = <<>> THEN 0
                                      ELSE baseURLPort(server[ServerRefKey(user[u])].spec),
                      childWrites |-> <<>>, found |-> ReadyReason(user[u].status),
                      update |-> res.update, statusWrite |-> res.statusWrite,
                      written |-> res.obj.status, accepted |-> f.sf # "write",
                      err |-> res.err, requeue |-> res.requeue]
    /\ UNCHANGED <<server, secret, serverSide, flight>>

\* metav1.Now() is one of Times, not before the time the stored status holds
UserReconcileWith(u, storeFaults, answers) ==
    UserReconcileAt(u, storeFaults, answers, NowChoices(user[u]))

UserReconcile(u) == UserReconcileWith(u, StoreFaults, AnyAnswer)

(* Environment: the users of the cluster and the objects they refer to *)

\* kubectl apply of the SftpGoUser manifest
CreateUserResource(u) ==
    /\ ~user[u].exists
    /\ user' = [user EXCEPT ![u] = NewUser(@.spec)]
    /\ queue' = queue \cup {u}
    /\ pass' = NoPass
    /\ UNCHANGED <<server, secret, remote, serverSide, flight>>

\* kubectl delete: the deletion timestamp is set while finalizers remain
RequestUserDeletion(u) ==
    /\ user[u].exists /\ ~user[u].deleting
    /\ user' = [user EXCEPT ![u] =
                   IF @.finalizers = {} THEN Gone(@) ELSE [@ EXCEPT !.deleting = TRUE]]
    /\ queue' = queue \cup {u}
    /\ pass' = NoPass
    /\ UNCHANGED <<server, secret, remote, serverSide, flight>>

\* the namespace the cluster's SftpGoServers are deployed in
ServerHome == "ns2"

\* an SftpGoServer appears in the store; the user controller does not watch it
ServerAppears(key, spec) ==
    /\ key[1] = ServerHome
    /\ ~server[key].exists
    /\ server' = [server EXCEPT ![key] = NewServer(spec)]
    /\ pass' = NoPass
    /\ UNCHANGED <<user, secret, remote, queue, serverSide, flight>>

\* an SftpGoServer leaves the store
ServerGone(key) ==
    /\ server[key].exists
    /\ server' = [server EXCEPT ![key] = NoServer]
    /\ pass' = NoPass
    /\ UNCHANGED <<user, secret, remote, queue, serverSide, flight>>

\* the informer's periodic resync hands every existing resource to a pass
Resync(u) ==
    /\ user[u].exists /\ u \notin queue
    /\ queue' = queue \cup {u}
    /\ pass' = NoPass
    /\ UNCHANGED <<user, server, secret, remote, serverSide, flight>>

\* the server specs of the user-controller specification: the user
\* controller reads adminSecretRef and webPort only
SpecServerSpecs == {s \in ServerSpecs : PlainServerSpec(s) /\ ~s.dataVolume}

\* the user resources and specs of the user-controller specification
SpecUsers == {"u1"}

\* the manifests: every way to name credentials with the server's namespace
\* given, and one that leaves the namespace to its default
SpecUserSpecs ==
    {s \in UserSpecs :
        /\ s.username = "alice"
        /\ s.bandwidthLimits = <<>>
        /\ (s.password # "" => s.passwordSecretRef = "")
        /\ (s.publicKeys # <<>> => s.publicKeysSecretRef = "")
        /\ (s.serverRef.namespace = "" =>
               s.password # "" /\ s.publicKeys = <<>> /\ s.publicKeysSecretRef = "")}

EmptyRemote == [n \in Usernames |-> NoEntity]

\* entities the service may hold before the controller first runs
InitEntities ==
    {NoEntity,
     [exists |-> TRUE, id |-> 1, password |-> "pw-old", public_keys |-> <<>>]}

ValidAdminSecret == CHOOSE a \in AdminSecrets : a.exists /\ a.username # ""
EmptyAdminSecret == CHOOSE a \in AdminSecrets : a.exists /\ a.username = ""

\* the admin secrets of the two namespaces: <<in ns1, in ns2>>
AdminSecretWorlds ==
    {<<NoSecret, ValidAdminSecret>>,
     <<ValidAdminSecret, NoSecret>>,
     <<ValidAdminSecret, EmptyAdminSecret>>}

Init ==
    /\ \E m \in [SpecUsers -> SpecUserSpecs] :
         user = [u \in Users |-> IF u \in SpecUsers THEN Gone(NewUser(m[u]))
                                 ELSE NoUser]
    /\ server = [k \in ServerKeys |-> NoServer]
    /\ \E w \in AdminSecretWorlds, c \in CredsSecrets :
         secret = [k \in SecretKeys |->
                     IF k = <<"ns1", AdminSecretName>> THEN w[1]
                     ELSE IF k = <<"ns2", AdminSecretName>> THEN w[2]
                     ELSE IF k = <<UserNamespace, CredsSecretName>> THEN c
                     ELSE NoSecret]
    /\ \E e \in InitEntities :
         remote = [k \in ServerKeys |-> [EmptyRemote EXCEPT !["alice"] = e]]
    /\ queue = {}
    /\ child = [k \in ServerKeys |-> NoChildren]
    /\ serverQueue = {}
    /\ pass = NoPass
    /\ flight = NoFlight

Next ==
    \/ \E u \in SpecUsers : UserReconcile(u)
    \/ \E u \in SpecUsers : CreateUserResource(u)
    \/ \E u \in SpecUsers : RequestUserDeletion(u)
    \/ \E k \in ServerKeys, s \in SpecServerSpecs : ServerAppears(k, s)
    \/ \E k \in ServerKeys : ServerGone(k)
    \/ \E u \in SpecUsers : Resync(u)

Spec == Init /\ [][Next]_vars

\* A healthy world: the object store answers every request and the remote
\* service answers every request truthfully.
HealthyUserReconcile(u) == UserReconcileWith(u, {"none"}, TruthOnly)

HealthyNext ==
    \/ \E u \in SpecUsers : HealthyUserReconcile(u)
    \/ \E u \in SpecUsers : CreateUserResource(u)
    \/ \E u \in SpecUsers : RequestUserDeletion(u)
    \/ \E k \in ServerKeys, s \in SpecServerSpecs : ServerAppears(k, s)
    \/ \E k \in ServerKeys : ServerGone(k)
    \/ \E u \in SpecUsers : Resync(u)

\* The dispatcher is fair: a queued user gets its pass. Nothing is assumed
\* of the environment.
FairSpec ==
    /\ Init
    /\ [][HealthyNext]_vars
    /\ \A u \in SpecUsers : WF_vars(HealthyUserReconcile(u))

\* The user controller with its retries: the object store and the remote
\* service may fail in any pass, and the dispatcher is fair: a queued user
\* gets its pass (a pass that returns an error queues the user again, with
\* backoff). Nothing is assumed of the environment.
RetrySpec ==
    /\ Init
    /\ [][Next]_vars
    /\ \A u \in SpecUsers : WF_vars(UserReconcile(u))

----------------------------------------------------------------------------
(* Both controllers *)

\* the server object the store holds after the pass's write, if it took it
ServerPersisted(stored, res, accepted) ==
    IF ~accepted THEN stored
    ELSE IF res.update # "none"
    THEN LET o == [stored EXCEPT !.finalizers = res.obj.finalizers]
         IN  IF o.deleting /\ o.finalizers = {} THEN NoServer ELSE o
    ELSE IF res.statusWrite THEN [stored EXCEPT !.status = res.obj.status]
    ELSE stored

\* the garbage collector: the children a removed server controls go with it
Collected(kids, key) ==
    [k \in ChildKinds |-> IF kids[k].owner = key THEN NoChild ELSE kids[k]]

\* One pass of the server controller for the server key. It is queued again
\* when the pass returns an error or asks for a requeue, or when its own
\* write changed the server object; the controller does not watch children.
ServerReconcileWith(key, storeFaults) ==
    /\ key \in serverQueue
    /\ \E sf \in storeFaults :
       \E res \in {ServerPass(server[key], key, child[key], sf)} :
       \E accepted \in {IF res.update # "none" THEN sf # "write" ELSE sf # "status"} :
       \E new \in {ServerPersisted(server[key], res, accepted)} :
          /\ server' = [server EXCEPT ![key] = new]
          /\ child' = [child EXCEPT ![key] =
                          IF server[key].exists /\ ~new.exists
                          THEN Collected(res.kids, key) ELSE res.kids]
          /\ serverQueue' = IF res.err \/ res.requeue \/ new # server[key]
                            THEN serverQueue \cup {key} ELSE serverQueue \ {key}
          /\ pass' = [kind |-> "server", name |-> key, storeFault |-> sf,
                      calls |-> <<>>, childWrites |-> res.childWrites,
                      found |-> ReadyReason(server[key].status),
                      update |-> res.update, statusWrite |-> res.statusWrite,
                      written |-> res.obj.status,
                      accepted |-> accepted,
                      err |-> res.err, requeue |-> res.requeue]
    /\ UNCHANGED <<user, secret, remote, queue, flight>>

ServerReconcile(key) == ServerReconcileWith(key, ServerStoreFaults)

\* kubectl apply of the SftpGoServer manifest
CreateServerResource(key, spec) ==
    /\ key[1] = ServerHome
    /\ ~server[key].exists
    /\ server' = [server EXCEPT ![key] = NewServer(spec)]
    /\ serverQueue' = serverQueue \cup {key}
    /\ pass' = NoPass
    /\ UNCHANGED <<user, secret, remote, queue, child, flight>>

\* kubectl delete of the SftpGoServer
RequestServerDeletion(key) ==
    /\ server[key].exists /\ ~server[key].deleting
    /\ server' = [server EXCEPT ![key] =
                     IF @.finalizers = {} THEN NoServer
                     ELSE [@ EXCEPT !.deleting = TRUE]]
    /\ child' = [child EXCEPT ![key] =
                    IF server[key].finalizers = {} THEN Collected(@, key) ELSE @]
    /\ serverQueue' = serverQueue \cup {key}
    /\ pass' = NoPass
    /\ UNCHANGED <<user, secret, remote, queue, flight>>

\* the Deployment controller reports the replicas of a server's Deployment
DeploymentReports(key, n, ready) ==
    /\ child[key]["Deployment"].exists
    /\ ready <= n
    /\ <<n, ready>> # <<child[key]["Deployment"].replicas,
                        child[key]["Deployment"].readyReplicas>>
    /\ child' = [child EXCEPT ![key]["Deployment"].replicas = n,
                              ![key]["Deployment"].readyReplicas = ready]
    /\ pass' = NoPass
    /\ UNCHANGED <<user, server, secret, remote, queue, serverQueue, flight>>

\* the specification of both controllers: one user manifest, one admin
\* secret, a server with a data volume and an admin secret or with neither
OperatorUserSpec ==
    [username |-> "alice", password |-> "pw-inline", passwordSecretRef |-> "",
     publicKeys |-> <<>>, publicKeysSecretRef |-> "",
     bandwidthLimits |-> <<>>,
     serverRef |-> [name |-> "s1", namespace |-> ServerHome]]

OperatorInit ==
    /\ user = [u \in Users |-> IF u \in SpecUsers
                               THEN Gone(NewUser(OperatorUserSpec)) ELSE NoUser]
    /\ server = [k \in ServerKeys |-> NoServer]
    /\ secret = [k \in SecretKeys |->
                    IF k = <<ServerHome, AdminSecretName>> THEN ValidAdminSecret
                    ELSE NoSecret]
    /\ remote = [k \in ServerKeys |-> EmptyRemote]
    /\ queue = {}
    /\ child = [k \in ServerKeys |-> NoChildren]
    /\ serverQueue = {}
    /\ pass = NoPass
    /\ flight = NoFlight

\* In this specification the user controller runs against a remote service
\* that answers truthfully; the object store fails for both controllers.
OperatorUserReconcile(u) == UserReconcileWith(u, StoreFaults, TruthOnly)

OperatorServerSpecs ==
    {s \in ServerSpecs :
        PlainServerSpec(s) /\ (s.dataVolume <=> s.adminSecretRef # "")}

OperatorNext ==
    \/ \E u \in SpecUsers : OperatorUserReconcile(u)
    \/ \E u \in SpecUsers : CreateUserResource(u)
    \/ \E u \in SpecUsers : RequestUserDeletion(u)
    \/ \E k \in ServerKeys : ServerReconcile(k)
    \/ \E k \in ServerKeys, s \in OperatorServerSpecs : CreateServerResource(k, s)
    \/ \E k \in ServerKeys : RequestServerDeletion(k)
    \/ \E k \in ServerKeys, n \in 0..MaxReplicas, r \in 0..MaxReplicas :
          DeploymentReports(k, n, r)

OperatorSpec == OperatorInit /\ [][OperatorNext]_vars

----------------------------------------------------------------------------
(* The server controller and a spec that changes *)

\* kubectl apply of a changed SftpGoServer manifest
UpdateServerSpec(key, spec) ==
    /\ server[key].exists /\ ~server[key].deleting
    /\ spec # server[key].spec
    /\ server' = [server EXCEPT ![key].spec = spec]
    /\ serverQueue' = serverQueue \cup {key}
    /\ pass' = NoPass
    /\ UNCHANGED <<user, secret, remote, queue, child, flight>>

\* the manifests of one server over time: with a data volume and an admin
\* secret; the same with image, replicas and storage backend set; with the
\* ports set; with a larger volume; and with nothing set at all
UpdateServerSpecs ==
    LET base == [SomeServerSpec EXCEPT !.dataVolume = TRUE,
                                       !.adminSecretRef = AdminSecretName]
    IN  {base,
         [base EXCEPT !.image = "sftpgo:edge", !.replicas = <<2>>,
                      !.storageBackend = "postgresql"],
         [base EXCEPT !.sftpPort = 2222, !.webPort = 9090],
         [base EXCEPT !.dataVolumeSize = "20Gi"],
         [SomeServerSpec EXCEPT !.dataVolume = FALSE, !.adminSecretRef = ""]}

UpdateNext ==
    \/ \E k \in ServerKeys : ServerReconcile(k)
    \/ \E k \in ServerKeys, s \in UpdateServerSpecs : CreateServerResource(k, s)
    \/ \E k \in ServerKeys, s \in UpdateServerSpecs : UpdateServerSpec(k, s)
    \/ \E k \in ServerKeys : RequestServerDeletion(k)

\* the server controller alone, its server's spec changing at any time
UpdateSpec == OperatorInit /\ [][UpdateNext]_vars

----------------------------------------------------------------------------
(* The server controller over every manifest *)

\* A ConfigMap with the server's name may be in the namespace before the
\* server is: left by hand (no controller), or under another controller. So
\* may a Deployment of another controller.
ManifestInit ==
    /\ user = [u \in Users |-> NoUser]
    /\ server = [k \in ServerKeys |-> NoServer]
    /\ secret = [k \in SecretKeys |-> NoSecret]
    /\ remote = [k \in ServerKeys |-> EmptyRemote]
    /\ queue = {}
    /\ \E o \in {"none", "byHand", "foreign"}, d \in {"none", "foreign"} :
          child = [k \in ServerKeys |->
                     [NoChildren EXCEPT
                         !["ConfigMap"] =
                             IF o = "none" THEN NoChild
                             ELSE [NoChild EXCEPT
                                      !.exists = TRUE,
                                      !.owner = IF o = "foreign"
                                                THEN <<k[1], "another">>
                                                ELSE NoOwner],
                         !["Deployment"] =
                             IF d = "none" THEN NoChild
                             ELSE [NoChild EXCEPT
                                      !.exists = TRUE,
                                      !.owner = <<k[1], "another">>]]]
    /\ serverQueue = {}
    /\ pass = NoPass
    /\ flight = NoFlight

\* every manifest the model's spec fields allow; the object store answers
ManifestNext ==
    \/ \E k \in ServerKeys, s \in ServerSpecs : CreateServerResource(k, s)
    \/ \E k \in ServerKeys : ServerReconcileWith(k, {"none"})
    \/ \E k \in ServerKeys : RequestServerDeletion(k)

ManifestSpec == ManifestInit /\ [][ManifestNext]_vars

----------------------------------------------------------------------------
(* The user controller over every manifest *)

\* One user with any credentials, inline, in a secret or both, and any
\* bandwidth limits, on a server whose admin secret is in place; the secret
\* the user's spec names may be missing.
PayloadInit ==
    /\ \E s \in {t \in UserSpecs : /\ t.username = "alice"
                                    /\ t.serverRef = [name |-> "s1", namespace |-> "ns2"]} :
          user = [u \in Users |-> IF u \in SpecUsers THEN Gone(NewUser(s))
                                  ELSE NoUser]
    /\ server = [k \in ServerKeys |->
                   NewServer([SomeServerSpec EXCEPT
                                 !.adminSecretRef = AdminSecretName])]
    /\ \E c \in CredsSecrets :
          secret = [k \in SecretKeys |->
                      IF k[2] = AdminSecretName THEN ValidAdminSecret
                      ELSE IF k = <<UserNamespace, CredsSecretName>> THEN c
                      ELSE NoSecret]
    /\ \E e \in InitEntities :
          remote = [k \in ServerKeys |-> [EmptyRemote EXCEPT !["alice"] = e]]
    /\ queue = {}
    /\ child = [k \in ServerKeys |-> NoChildren]
    /\ serverQueue = {}
    /\ pass = NoPass
    /\ flight = NoFlight

PayloadNext ==
    \/ \E u \in SpecUsers : HealthyUserReconcile(u)
    \/ \E u \in SpecUsers : CreateUserResource(u)
    \/ \E u \in SpecUsers : RequestUserDeletion(u)

PayloadSpec == PayloadInit /\ [][PayloadNext]_vars

----------------------------------------------------------------------------
(* Two resources for one remote user *)

\* Nothing in the schema or in the controller keeps two SftpGoUser objects
\* from naming the same username on the same server. Both are applied here
\* with inline passwords, on a server whose admin secret is in place and
\* whose service holds no user yet.
SharedInit ==
    /\ \E pa, pb \in {<<>>, <<"ssh-k1">>} :
          user = [u \in Users |->
                    Gone(NewUser([SomeUserSpec EXCEPT
                                     !.username = "alice",
                                     !.password = "pw-inline",
                                     !.passwordSecretRef = "",
                                     !.publicKeys = IF u = "u1" THEN pa ELSE pb,
                                     !.publicKeysSecretRef = "",
                                     !.serverRef = [name |-> "s1",
                                                    namespace |-> "ns2"]]))]
    /\ server = [k \in ServerKeys |->
                   NewServer([SomeServerSpec EXCEPT
                                 !.adminSecretRef = AdminSecretName])]
    /\ secret = [k \in SecretKeys |->
                   IF k[2] = AdminSecretName THEN ValidAdminSecret ELSE NoSecret]
    /\ remote = [k \in ServerKeys |-> EmptyRemote]
    /\ queue = {}
    /\ child = [k \in ServerKeys |-> NoChildren]
    /\ serverQueue = {}
    /\ pass = NoPass
    /\ flight = NoFlight

\* the store and the service answer every request; a resource gets a pass
\* when it is applied, deleted, or changed by its own pass
SharedNext ==
    \/ \E u \in Users : HealthyUserReconcile(u)
    \/ \E u \in Users : CreateUserResource(u)
    \/ \E u \in Users : RequestUserDeletion(u)

SharedSpec == SharedInit /\ [][SharedNext]_vars

----------------------------------------------------------------------------
(* One user over its life: applied, edited, reconciled again, deleted *)

\* the manifests the owner goes through: the username and the namespace of
\* the server reference change, the inline password stays
EditUserSpecs ==
    {[SomeUserSpec EXCEPT !.username = n,
                          !.password = "pw-inline",
                          !.passwordSecretRef = "",
                          !.publicKeys = <<>>,
                          !.publicKeysSecretRef = "",
                          !.serverRef = [name |-> "s1", namespace |-> ns]] :
        n \in Usernames, ns \in {"", "ns2"}}

\* Both servers are in the store with their admin secrets, and their
\* services hold no user: every remote user there will be is one a pass of
\* this resource created.
EditInit ==
    /\ \E s \in EditUserSpecs :
          user = [u \in Users |-> IF u \in SpecUsers THEN Gone(NewUser(s))
                                  ELSE NoUser]
    /\ server = [k \in ServerKeys |->
                   NewServer([SomeServerSpec EXCEPT
                                 !.adminSecretRef = AdminSecretName])]
    /\ secret = [k \in SecretKeys |->
                   IF k[2] = AdminSecretName THEN ValidAdminSecret ELSE NoSecret]
    /\ remote = [k \in ServerKeys |-> EmptyRemote]
    /\ queue = {}
    /\ child = [k \in ServerKeys |-> NoChildren]
    /\ serverQueue = {}
    /\ pass = NoPass
    /\ flight = NoFlight

\* kubectl apply of a changed SftpGoUser manifest
EditUserSpec(u, spec) ==
    /\ user[u].exists /\ ~user[u].deleting
    /\ spec # user[u].spec
    /\ user' = [user EXCEPT ![u].spec = spec]
    /\ queue' = queue \cup {u}
    /\ pass' = NoPass
    /\ UNCHANGED <<server, secret, remote, serverSide, flight>>

\* the store and the service answer every request; the wall clock may move
\* on between two passes
EditNext ==
    \/ \E u \in SpecUsers : UserReconcileAt(u, {"none"}, TruthOnly, 1..MaxClock)
    \/ \E u \in SpecUsers : CreateUserResource(u)
    \/ \E u \in SpecUsers, s \in EditUserSpecs : EditUserSpec(u, s)
    \/ \E u \in SpecUsers : RequestUserDeletion(u)

EditSpec == EditInit /\ [][EditNext]_vars

----------------------------------------------------------------------------
(* Both controllers over the web port *)

\* servers with an admin secret whose web port is left out, set at the top
\* level, set in the config section, or both
PortServerSpecs ==
    {[SomeServerSpec EXCEPT !.adminSecretRef = AdminSecretName,
                            !.webPort = w, !.configHttpPort = c] :
        w \in {0, 9090}, c \in {0, 9443}}

\* the store and the service answer every request
PortNext ==
    \/ \E u \in SpecUsers : HealthyUserReconcile(u)
    \/ \E u \in SpecUsers : CreateUserResource(u)
    \/ \E u \in SpecUsers : RequestUserDeletion(u)
    \/ \E k \in ServerKeys : ServerReconcileWith(k, {"none"})
    \/ \E k \in ServerKeys, s \in PortServerSpecs : CreateServerResource(k, s)

PortSpec == OperatorInit /\ [][PortNext]_vars

----------------------------------------------------------------------------
(* Two user passes, step by step *)

\* The passes of two users run on two workers, each at its own pace: the get
\* (lines 627-640), the create or update (642-673), the write of the status
\* (633-639, 651-658, 666-672, 675-689). flight.at[u] holds what the pass of u
\* keeps in local variables between the steps; flight.user and flight.remote
\* are the store and the services as the passes found them.
StepInit ==
    /\ \E sa, sb \in {s \in UserSpecs : /\ s.passwordSecretRef = ""
                                        /\ s.publicKeysSecretRef = ""
                                        /\ s.bandwidthLimits = <<>>
                                        /\ s.password # "" \/ s.publicKeys # <<>>} :
          /\ sa.username = "alice" /\ sb.username = "bob"
          /\ sa.serverRef.namespace = "ns2"
          /\ user = [u \in Users |->
                       AddFinalizer(NewUser(IF u = "u1" THEN sa ELSE sb),
                                    sftpgoUserFinalizer)]
    /\ server = [k \in ServerKeys |->
                   NewServer([SomeServerSpec EXCEPT
                                 !.adminSecretRef = AdminSecretName])]
    /\ secret = [k \in SecretKeys |->
                   IF k[2] = AdminSecretName THEN ValidAdminSecret ELSE NoSecret]
    /\ \E ea, eb \in InitEntities :
          remote = [k \in ServerKeys |->
                      [EmptyRemote EXCEPT !["alice"] = ea, !["bob"] = eb]]
    /\ queue = {}
    /\ child = [k \in ServerKeys |-> NoChildren]
    /\ serverQueue = {}
    /\ pass = NoPass
    /\ flight = [at |-> [u \in Users |->
                            [pc |-> "get", existing |-> NoEntity, code |-> 0,
                             newId |-> 0, now |-> 0]],
                 user |-> user, remote |-> remote]

\* lines 627-640 and 649-659: the get by username, and what follows from it
StepGet(u) ==
    LET obj == user[u]
        rem == remote[ServerRefKey(obj)]
        name == obj.spec.username
        got == GetUser(RemoteGetCode(rem, name, NoFault), rem[name])
        rejected == /\ ~got.user.exists
                    /\ CreateRejected(resolvePassword(obj).value,
                                      resolvePublicKeys(obj).value)
    IN  /\ flight.at[u].pc = "get"
        /\ flight' = [flight EXCEPT
                         !.at[u].existing = got.user,
                         !.at[u].pc = IF rejected THEN "rejected" ELSE "write"]
        /\ UNCHANGED <<user, server, secret, remote, queue, serverSide, pass>>

\* A payload kept in one place for both workers: the one of the first user
StepPayloadShared(u) ==
    UserFromCR(user["u1"].spec, resolvePassword(user["u1"]).value,
               resolvePublicKeys(user["u1"]).value)

\* line 625: the payload is a local variable of the pass
StepPayload(u) ==
    UserFromCR(user[u].spec, resolvePassword(user[u]).value,
               resolvePublicKeys(user[u]).value)

\* lines 642-647 and 660: the update of the user the get found, or the create
StepWrite(u) ==
    LET obj == user[u]
        key == ServerRefKey(obj)
        rem == remote[key]
        name == obj.spec.username
        pw == resolvePassword(obj).value
        payload == StepPayload(u)
        existing == flight.at[u].existing
        upd == UpdatePayload(payload, existing, pw)
        code == IF existing.exists THEN RemotePutCode(rem, name, NoFault)
                ELSE RemotePostCode(rem, payload, NoFault)
    IN  /\ flight.at[u].pc = "write"
        /\ \E newId \in IdChoices(key) :
              /\ remote' = [remote EXCEPT ![key] =
                               IF existing.exists
                               THEN RemoteAfterPut(rem, name, upd, code)
                               ELSE RemoteAfterPost(rem, payload, code, newId)]
              /\ flight' = [flight EXCEPT !.at[u].code = code,
                                          !.at[u].newId = newId,
                                          !.at[u].pc = "status"]
        /\ UNCHANGED <<user, server, secret, queue, serverSide, pass>>

\* lines 651-658, 666-672, 675-689: the status the pass ends with
StepStatus(u) ==
    LET obj == user[u]
        at == flight.at[u]
    IN  /\ at.pc \in {"rejected", "status"}
        /\ \E now \in NowChoices(obj) :
              /\ user' = [user EXCEPT ![u] =
                    IF at.pc = "rejected"
                    THEN WithStatus(obj, "False", "ValidationError",
                                    "New user requires either password or publicKeys",
                                    "Error")
                    ELSE IF upsertUserErr(at.code)
                    THEN WithStatus(obj, "False", "APIError", ErrorText(at.code),
                                    "Error")
                    ELSE [WithStatus(obj, "True", "Synced", "", "Synced")
                            EXCEPT !.status.lastSynced = now,
                                   !.status.userID = IF at.existing.exists
                                                     THEN at.existing.id ELSE @]]
              /\ flight' = [flight EXCEPT !.at[u].now = now, !.at[u].pc = "done"]
        /\ UNCHANGED <<server, secret, remote, queue, serverSide, pass>>

StepNext ==
    \/ \E u \in Users : StepGet(u)
    \/ \E u \in Users : StepWrite(u)
    \/ \E u \in Users : StepStatus(u)

StepSpec == StepInit /\ [][StepNext]_vars

\* The two passes one after the other, a first, from the state the passes
\* found, each with the identifier and the time its pass got: the services and
\* the two statuses they leave.
OneAfterTheOther(a, b) ==
    LET ka == ServerRefKey(flight.user[a])
        kb == ServerRefKey(flight.user[b])
        ra == UserUpsertOn(flight.remote[ka], flight.user[a],
                           resolvePassword(flight.user[a]).value,
                           resolvePublicKeys(flight.user[a]).value,
                           "none", NoFault, NoFault,
                           flight.at[a].newId, flight.at[a].now)
        mid == [flight.remote EXCEPT ![ka] = ra.rem]
        rb == UserUpsertOn(mid[kb], flight.user[b],
                           resolvePassword(flight.user[b]).value,
                           resolvePublicKeys(flight.user[b]).value,
                           "none", NoFault, NoFault,
                           flight.at[b].newId, flight.at[b].now)
    IN  [remote |-> [mid EXCEPT ![kb] = rb.rem],
         status |-> (a :> ra.obj.status) @@ (b :> rb.obj.status)]

----------------------------------------------------------------------------
(* Vocabulary of the properties. A step that is a pass of the user          *)
(* controller has pass' describe it; the unprimed variables are the state    *)
(* the pass found, the primed ones the state it left.                        *)

\* this step is a pass for the SftpGoUser u
IsUserPass(u) == pass'.kind = "user" /\ pass'.name = u

\* the object store answered every request of the pass
StoreAnswered == pass'.storeFault = "none"

\* the remote service answered every request of the pass truthfully
RemoteAnswered ==
    \A i \in DOMAIN pass'.calls : pass'.calls[i].code \notin RemoteFaults

\* u is in the store with the finalizer, and its deletion has been requested
Terminating(u) ==
    /\ user[u].exists /\ user[u].deleting
    /\ sftpgoUserFinalizer \in user[u].finalizers

\* u is in the store with the finalizer, and no deletion has been requested
Active(u) ==
    /\ user[u].exists /\ ~user[u].deleting
    /\ sftpgoUserFinalizer \in user[u].finalizers

\* the server u refers to: serverRef.namespace, or u's own namespace
ReferencedServer(u) ==
    <<IF user[u].spec.serverRef.namespace = "" THEN user[u].namespace
      ELSE user[u].spec.serverRef.namespace,
      user[u].spec.serverRef.name>>

ServerMissing(u) == ~server[ReferencedServer(u)].exists

AdminSecretRefUnset(u) ==
    /\ server[ReferencedServer(u)].exists
    /\ server[ReferencedServer(u)].spec.adminSecretRef = ""

\* adminSecretRef unset, the secret missing, or an empty username or password
AdminCredentialsUnresolved(u) ==
    LET k == ReferencedServer(u)
        ref == server[k].spec.adminSecretRef
    IN  /\ server[k].exists
        /\ \/ ref = ""
           \/ ~secret[<<k[1], ref>>].exists
           \/ secret[<<k[1], ref>>].username = ""
           \/ secret[<<k[1], ref>>].password = ""

\* the server exists and its admin secret holds a username and a password
AdminCredentialsResolved(u) ==
    /\ server[ReferencedServer(u)].exists
    /\ ~AdminCredentialsUnresolved(u)

\* what the service of u's server stores under u's username
RemoteEntity(u) == remote[ReferencedServer(u)][user[u].spec.username]

\* a status holds the condition Ready with this status and reason
HasReady(status, st, reason) ==
    \E i \in DOMAIN status.conditions :
        /\ status.conditions[i].type = "Ready"
        /\ status.conditions[i].status = st
        /\ status.conditions[i].reason = reason

\* the requests of the last pass that change the remote service's state
RemoteWrites(calls) ==
    {i \in DOMAIN calls : calls[i].method \in {"POST", "PUT", "DELETE"}}

IsServerPass(k) == pass'.kind = "server" /\ pass'.name = k

----------------------------------------------------------------------------
(* The finalizer comes first *)

\* the pass wrote nothing but, at most, the resource's metadata
NoSideEffect ==
    /\ pass'.calls = <<>> /\ remote' = remote
    /\ pass'.childWrites = <<>> /\ child' = child
    /\ ~pass'.statusWrite

\* C1: a pass of either controller over a resource that is stored without
\* the finalizer issues one update that adds the finalizer and ends: no
\* child is applied, no status is written, no request goes to the remote
\* service. So no pass applies a child or calls the remote service for a
\* resource whose stored record lacks the finalizer.
C1_FinalizerFirst ==
    [][/\ \A u \in Users :
            (IsUserPass(u) /\ sftpgoUserFinalizer \notin user[u].finalizers)
            => /\ NoSideEffect
               /\ user'[u].status = user[u].status
               /\ (user[u].exists /\ pass'.storeFault # "get")
                  => /\ pass'.update = "add"
                     /\ pass'.accepted
                        => user'[u] = AddFinalizer(user[u], sftpgoUserFinalizer)
                     /\ ~pass'.accepted => user'[u] = user[u]
       /\ \A k \in ServerKeys :
            (IsServerPass(k) /\ sftpgoServerFinalizer \notin server[k].finalizers)
            => /\ NoSideEffect
               /\ server'[k].status = server[k].status
               /\ (server[k].exists /\ pass'.storeFault # "get")
                  => /\ pass'.update = "add"
                     /\ pass'.accepted
                        => server'[k] = AddFinalizer(server[k], sftpgoServerFinalizer)
                     /\ ~pass'.accepted => server'[k] = server[k]
      ]_vars

\* C1 happens, for a user: the last pass added the finalizer to a user whose
\* server exists with admin credentials, and did nothing else.
C1_Witness ==
    /\ pass.kind = "user" /\ pass.update = "add" /\ pass.accepted
    /\ Active(pass.name)
    /\ AdminCredentialsResolved(pass.name)
    /\ pass.calls = <<>> /\ ~pass.statusWrite
    /\ user[pass.name].status = EmptyUserStatus
    /\ \E k \in ServerKeys :
          /\ server[k].exists
          /\ sftpgoServerFinalizer \in server[k].finalizers
          /\ child[k]["ConfigMap"].exists

----------------------------------------------------------------------------
(* Deletion of an SftpGoUser *)

\* C3 (as claimed): a deletion pass whose DELETE is answered 404 (the user
\* is not on the service: never created, or already deleted) treats the
\* delete as done: it returns no error and removes the finalizer.
C3_DeleteNotFoundIsSuccess ==
    [][\A u \in Users :
         (/\ IsUserPass(u) /\ Terminating(u) /\ StoreAnswered
          /\ Len(pass'.calls) = 1
          /\ pass'.calls[1].method = "DELETE"
          /\ pass'.calls[1].code = StatusNotFound)
         => (~pass'.err /\ sftpgoUserFinalizer \notin user'[u].finalizers)]_vars

\* C2 (as claimed): once deletion is requested for a user that carries the
\* finalizer, the finalizer is eventually removed, whatever the remote
\* service answers to the delete.
C2_DeletionNeverStuck ==
    \A u \in SpecUsers :
        Terminating(u) ~> (sftpgoUserFinalizer \notin user[u].finalizers)

\* C4: a deletion pass that finds the referenced server missing, or cannot
\* resolve its admin credentials, sends nothing to the remote service and
\* removes the finalizer in that same pass.
C4_DeletionWithoutServerOrCredentials ==
    [][\A u \in Users :
         (/\ IsUserPass(u) /\ Terminating(u) /\ StoreAnswered
          /\ (ServerMissing(u) \/ AdminCredentialsUnresolved(u)))
         => (/\ pass'.calls = <<>>
             /\ remote' = remote
             /\ ~pass'.err
             /\ sftpgoUserFinalizer \notin user'[u].finalizers)]_vars

\* C4 happens: the last pass removed the finalizer of a resource whose
\* server is missing, without a request to the remote service.
C4_Witness ==
    /\ pass.kind = "user"
    /\ pass.update = "remove" /\ pass.accepted /\ pass.calls = <<>>
    /\ ~user[pass.name].exists
    /\ ServerMissing(pass.name)

----------------------------------------------------------------------------
(* Creating and updating the remote user *)

\* the credentials u's spec resolves to, when its secrets can be read
ResolvedPassword(u) == resolvePassword(user[u]).value
ResolvedKeys(u) == resolvePublicKeys(user[u]).value
CredentialsReadable(u) ==
    ~resolvePassword(user[u]).err /\ ~resolvePublicKeys(user[u]).err

\* the pass reaches the get-by-username: u is active, its server exists with
\* admin credentials, and the secrets its spec names can be read
ReachesRemote(u) ==
    /\ Active(u) /\ StoreAnswered
    /\ AdminCredentialsResolved(u)
    /\ CredentialsReadable(u)

\* C5: no pass sends a create whose payload has neither a password nor a
\* public key; when the user is absent on the service and the spec resolves
\* to neither, the pass sends no create at all.
C5_NoCreateWithoutCredentials ==
    [][\A u \in Users : IsUserPass(u) =>
         /\ \A i \in DOMAIN pass'.calls :
               pass'.calls[i].method = "POST" =>
                  ~(/\ pass'.calls[i].payload.password = ""
                    /\ pass'.calls[i].payload.public_keys = <<>>)
         /\ (/\ ReachesRemote(u)
             /\ ~RemoteEntity(u).exists
             /\ ResolvedPassword(u) = "" /\ ResolvedKeys(u) = <<>>)
            => \A i \in DOMAIN pass'.calls : pass'.calls[i].method # "POST"]_vars

\* C5 happens: the last pass asked for a user that is absent, had neither a
\* password nor a key for it, and sent no create.
C5_Witness ==
    /\ pass.kind = "user"
    /\ Len(pass.calls) = 1
    /\ pass.calls[1].method = "GET" /\ pass.calls[1].code = StatusNotFound
    /\ ~pass.err
    /\ ResolvedPassword(pass.name) = "" /\ ResolvedKeys(pass.name) = <<>>

\* C6 (as claimed): a pass over a spec that resolves to neither a password
\* nor a key, the remote user being absent, ends with Ready=False,
\* ValidationError, phase Error, no error and no requeue, and sends no
\* request to the remote service.
C6_RejectedWithoutRemoteCall ==
    [][\A u \in Users :
         (/\ IsUserPass(u) /\ ReachesRemote(u) /\ RemoteAnswered
          /\ ~RemoteEntity(u).exists
          /\ ResolvedPassword(u) = "" /\ ResolvedKeys(u) = <<>>)
         => (/\ HasReady(user'[u].status, "False", "ValidationError")
             /\ user'[u].status.phase = "Error"
             /\ ~pass'.err /\ ~pass'.requeue
             /\ pass'.calls = <<>>)]_vars

\* C6 (amended): such a pass ends with Ready=False, ValidationError, phase
\* Error, no error and no requeue; the one request it sends is the
\* get-by-username that finds the user absent, and it changes nothing on
\* the remote service.
C6_RejectedAfterGet ==
    [][\A u \in Users :
         (/\ IsUserPass(u) /\ ReachesRemote(u) /\ RemoteAnswered
          /\ ~RemoteEntity(u).exists
          /\ ResolvedPassword(u) = "" /\ ResolvedKeys(u) = <<>>)
         => (/\ HasReady(user'[u].status, "False", "ValidationError")
             /\ user'[u].status.phase = "Error"
             /\ ~pass'.err /\ ~pass'.requeue
             /\ Len(pass'.calls) = 1
             /\ pass'.calls[1].method = "GET"
             /\ pass'.calls[1].code = StatusNotFound
             /\ RemoteWrites(pass'.calls) = {}
             /\ remote' = remote)]_vars

\* C6 happens: the stored status says ValidationError after a pass that only
\* asked for the user.
C6_Witness ==
    /\ pass.kind = "user" /\ pass.accepted /\ pass.statusWrite
    /\ ~pass.err /\ ~pass.requeue
    /\ Len(pass.calls) = 1 /\ pass.calls[1].method = "GET"
    /\ user[pass.name].status.phase = "Error"
    /\ HasReady(user[pass.name].status, "False", "ValidationError")
    /\ ~RemoteEntity(pass.name).exists

\* C7: an update sent while the resolved password is empty carries no
\* password, and the password the service stores is the one it stored before.
C7_UpdateKeepsStoredPassword ==
    [][\A u \in Users :
         (/\ IsUserPass(u) /\ ReachesRemote(u)
          /\ ResolvedPassword(u) = "")
         => \A i \in DOMAIN pass'.calls :
               pass'.calls[i].method = "PUT" =>
                  /\ pass'.calls[i].payload.password = ""
                  /\ remote'[ReferencedServer(u)][user[u].spec.username].password
                        = RemoteEntity(u).password]_vars

\* C7 happens: the last pass updated, with a body that has no password, a
\* user whose stored password is not empty, and the service accepted.
C7_Witness ==
    /\ pass.kind = "user"
    /\ Len(pass.calls) = 2
    /\ pass.calls[2].method = "PUT" /\ pass.calls[2].code = StatusOK
    /\ pass.calls[2].payload.password = ""
    /\ ResolvedPassword(pass.name) = ""
    /\ RemoteEntity(pass.name).exists
    /\ RemoteEntity(pass.name).password = "pw-old"

----------------------------------------------------------------------------
(* Outcomes of a pass that cannot reach the remote service *)

\* C8: a pass over an active user whose server reference resolves to no
\* stored server persists Ready=False, ServerNotFound, phase Error, sends
\* nothing to the remote service and returns no error.
C8_ServerNotFound ==
    [][\A u \in Users :
         (IsUserPass(u) /\ Active(u) /\ StoreAnswered /\ ServerMissing(u))
         => (/\ HasReady(user'[u].status, "False", "ServerNotFound")
             /\ user'[u].status.phase = "Error"
             /\ pass'.calls = <<>>
             /\ remote' = remote
             /\ ~pass'.err)]_vars

\* C8 happens: the stored status says ServerNotFound after a pass without
\* remote requests, for a user whose serverRef leaves the namespace unset
\* while a server of that name exists in another namespace.
C8_Witness ==
    /\ pass.kind = "user" /\ pass.accepted /\ pass.statusWrite
    /\ pass.calls = <<>> /\ ~pass.err
    /\ Active(pass.name)
    /\ user[pass.name].spec.serverRef.namespace = ""
    /\ ServerMissing(pass.name)
    /\ \E k \in ServerKeys : server[k].exists
    /\ user[pass.name].status.phase = "Error"
    /\ HasReady(user[pass.name].status, "False", "ServerNotFound")

\* C9: a pass over an active user whose server exists with adminSecretRef
\* unset persists Ready=False, AuthNotConfigured, phase Pending, sends
\* nothing to the remote service, returns no error and asks for no requeue;
\* once the stored status says so, a further pass changes nothing and
\* leaves the user out of the work queue.
C9_AuthNotConfiguredParks ==
    [][\A u \in Users :
         (IsUserPass(u) /\ Active(u) /\ StoreAnswered /\ AdminSecretRefUnset(u))
         => (/\ HasReady(user'[u].status, "False", "AuthNotConfigured")
             /\ user'[u].status.phase = "Pending"
             /\ pass'.calls = <<>>
             /\ remote' = remote
             /\ ~pass'.err /\ ~pass'.requeue
             /\ (/\ HasReady(user[u].status, "False", "AuthNotConfigured")
                 /\ user[u].status.phase = "Pending")
                => (user'[u] = user[u] /\ u \notin queue'))]_vars

\* C9 happens: a pass has parked the user: the stored status says
\* AuthNotConfigured and Pending, and the user is not queued.
C9_Witness ==
    /\ pass.kind = "user" /\ pass.accepted /\ pass.statusWrite
    /\ pass.calls = <<>> /\ ~pass.err /\ ~pass.requeue
    /\ Active(pass.name) /\ AdminSecretRefUnset(pass.name)
    /\ user[pass.name].status.phase = "Pending"
    /\ HasReady(user[pass.name].status, "False", "AuthNotConfigured")
    /\ pass.name \notin queue

\* a status holds Ready=False with a reason and a message
HasFailureCondition(status) ==
    \E i \in DOMAIN status.conditions :
        /\ status.conditions[i].type = "Ready"
        /\ status.conditions[i].status = "False"
        /\ status.conditions[i].reason # ""
        /\ status.conditions[i].message # ""

\* C10 (as claimed): every pass over an active user that ends in a failure
\* has written, before it returns, a status with Ready=False, a reason and a
\* message, and phase Error.
C10_EveryFailureWritesStatus ==
    [][\A u \in Users :
         (IsUserPass(u) /\ Active(u) /\ StoreAnswered /\ pass'.err)
         => (/\ pass'.statusWrite
             /\ HasFailureCondition(pass'.written)
             /\ pass'.written.phase = "Error")]_vars

----------------------------------------------------------------------------
(* Status of an SftpGoServer *)

\* k is in the store with the finalizer, and no deletion has been requested
ActiveServer(k) ==
    /\ server[k].exists /\ ~server[k].deleting
    /\ sftpgoServerFinalizer \in server[k].finalizers

\* the pass failed while it applied the children or read the Deployment back
ChildStageFailed ==
    /\ pass'.err
    /\ pass'.storeFault \in {"ConfigMap", "PersistentVolumeClaim", "Deployment",
                             "getDeployment", "Service"}

\* a status holds a condition with a reason
HasReasonedCondition(status) ==
    \E i \in DOMAIN status.conditions : status.conditions[i].reason # ""

\* C11 (as claimed): a server pass that fails applying a child or reading
\* the Deployment back has written, before it returns, a status with a
\* condition that carries a reason, and phase Error.
C11_ChildFailureWritesStatus ==
    [][\A k \in ServerKeys :
         (IsServerPass(k) /\ ActiveServer(k) /\ ChildStageFailed)
         => (/\ pass'.statusWrite
             /\ HasReasonedCondition(pass'.written)
             /\ pass'.written.phase = "Error")]_vars

----------------------------------------------------------------------------
(* What a pass leaves alone *)

\* the pass went all the way: it wrote the status of a full success
UserPassSucceeded ==
    pass'.statusWrite /\ HasReady(pass'.written, "True", "Synced")

\* a failed server pass leaves Ready as it found it, so the written status
\* does not tell: the pass wrote a status and no stage before it failed
ServerPassSucceeded ==
    /\ pass'.statusWrite /\ ~ChildStageFailed
    /\ HasReady(pass'.written, "True", "Reconciled")

\* C12: no pass changes the spec of its resource; a pass that does not end
\* in full success leaves the stored userID and lastSynced of a user, and
\* the stored replicas, readyReplicas and ports of a server, as they were
\* (only phase and conditions may differ).
C12_FailureTouchesOnlyPhaseAndConditions ==
    [][/\ \A u \in Users :
            (IsUserPass(u) /\ user'[u].exists)
            => /\ user'[u].spec = user[u].spec
               /\ ~UserPassSucceeded
                  => /\ user'[u].status.userID = user[u].status.userID
                     /\ user'[u].status.lastSynced = user[u].status.lastSynced
       /\ \A k \in ServerKeys :
            (IsServerPass(k) /\ server'[k].exists)
            => /\ server'[k].spec = server[k].spec
               /\ ~ServerPassSucceeded
                  => /\ server'[k].status.replicas = server[k].status.replicas
                     /\ server'[k].status.readyReplicas
                           = server[k].status.readyReplicas
                     /\ server'[k].status.ports = server[k].status.ports
      ]_vars

\* C12 happens: a pass found a Synced user, failed with ServerNotFound and
\* its status write was stored; the identifier and the timestamp of the
\* earlier success are still there.
C12_Witness ==
    /\ pass.kind = "user" /\ pass.found = "Synced"
    /\ pass.statusWrite /\ pass.accepted
    /\ HasReady(user[pass.name].status, "False", "ServerNotFound")
    /\ user[pass.name].status.phase = "Error"
    /\ user[pass.name].status.userID > 0
    /\ user[pass.name].status.lastSynced > 0

----------------------------------------------------------------------------
(* The status of a full success *)

\* what the service of u's server stores under u's username after the pass
RemoteEntityAfter(u) == remote'[ReferencedServer(u)][user[u].spec.username]

\* C13 (as claimed): after a user pass that ends in full success the stored
\* status has Ready=True, phase Synced, a lastSynced time, and the userID of
\* the remote user, whether the pass created or updated it.
C13_SuccessRecordsRemoteId ==
    [][\A u \in Users :
         (/\ IsUserPass(u) /\ Active(u) /\ StoreAnswered
          /\ UserPassSucceeded /\ ~pass'.err)
         => (/\ HasReady(user'[u].status, "True", "Synced")
             /\ user'[u].status.phase = "Synced"
             /\ user'[u].status.lastSynced > 0
             /\ RemoteEntityAfter(u).exists
             /\ user'[u].status.userID = RemoteEntityAfter(u).id)]_vars

\* the ports a server's spec resolves to (getSFTPPort, getWebPort after
\* applyDefaults)
ResolvedPorts(spec) ==
    [sftp |-> getSFTPPort(applyDefaults(spec)),
     web |-> getWebPort(applyDefaults(spec)),
     http |-> getWebPort(applyDefaults(spec))]

\* C14 (as claimed): after a server pass that ends in full success the
\* stored status has Ready=True, phase Running, the ports the spec resolves
\* to, and the replicas and readyReplicas that the Deployment reports,
\* whatever it reports, zero after a non-zero value included.
C14_SuccessCopiesCounts ==
    [][\A k \in ServerKeys :
         (/\ IsServerPass(k) /\ ActiveServer(k)
          /\ ServerPassSucceeded /\ pass'.accepted /\ ~pass'.err)
         => (/\ HasReady(server'[k].status, "True", "Reconciled")
             /\ server'[k].status.phase = "Running"
             /\ server'[k].status.ports = ResolvedPorts(server[k].spec)
             /\ server'[k].status.replicas = child'[k]["Deployment"].replicas
             /\ server'[k].status.readyReplicas
                   = child'[k]["Deployment"].readyReplicas)]_vars

----------------------------------------------------------------------------
(* The order of the children *)

\* the children a server pass applies, in the order of lines 94-169
ExpectedChildren(spec) ==
    IF applyDefaults(spec).dataVolume
    THEN <<"ConfigMap", "PersistentVolumeClaim", "Deployment", "Service">>
    ELSE <<"ConfigMap", "Deployment", "Service">>

IsPrefix(s, t) ==
    Len(s) <= Len(t) /\ \A i \in 1..Len(s) : s[i] = t[i]

\* the pass applied the child of this kind: the store took the write, and
\* the child is there under the control of the server k
AppliedInPass(k, kind) ==
    /\ pass'.storeFault # kind
    /\ child'[k][kind].exists
    /\ child'[k][kind].owner = k

\* C15: the children a server pass writes are a prefix of ConfigMap,
\* PersistentVolumeClaim (with a data volume only), Deployment, Service; every
\* child before the last one written was applied in this pass; the status of
\* a full success is written only after all of them were applied.
C15_ChildrenInOrder ==
    [][\A k \in ServerKeys :
         (IsServerPass(k) /\ server[k].exists)
         => (/\ IsPrefix(pass'.childWrites, ExpectedChildren(server[k].spec))
             /\ \A i \in 1..(Len(pass'.childWrites) - 1) :
                    AppliedInPass(k, pass'.childWrites[i])
             /\ ServerPassSucceeded
                => /\ pass'.childWrites = ExpectedChildren(server[k].spec)
                   /\ \A i \in 1..Len(pass'.childWrites) :
                          AppliedInPass(k, pass'.childWrites[i]))]_vars

\* C15 happens: a pass over a server with a data volume applied the ConfigMap,
\* failed on the PersistentVolumeClaim and stopped; it wrote no Deployment.
C15_Witness ==
    /\ pass.kind = "server"
    /\ pass.storeFault = "PersistentVolumeClaim"
    /\ pass.childWrites = <<"ConfigMap", "PersistentVolumeClaim">>
    /\ pass.err /\ ~pass.statusWrite
    /\ child[pass.name]["ConfigMap"].exists
    /\ ~child[pass.name]["Deployment"].exists

----------------------------------------------------------------------------
(* The stored status *)

\* a condition list holds one entry per type at most
OnePerType(conds) ==
    \A i, j \in DOMAIN conds : conds[i].type = conds[j].type => i = j

\* C16: the stored status of every SftpGoUser and of every SftpGoServer has
\* one condition per type at most, after any sequence of passes.
C16_OneConditionPerType ==
    /\ \A u \in Users : OnePerType(user[u].status.conditions)
    /\ \A k \in ServerKeys : OnePerType(server[k].status.conditions)

\* C16 happens: a server that holds Degraded from a failed pass and Ready
\* from a successful one went through one more successful pass, which wrote
\* Ready over the entry that was there; the list still has two entries.
C16_Witness ==
    /\ pass.kind = "server" /\ pass.found = "Reconciled"
    /\ pass.statusWrite /\ pass.accepted /\ ~pass.err
    /\ Len(server[pass.name].status.conditions) = 2
    /\ \E i \in 1..2 : server[pass.name].status.conditions[i].type = "Degraded"
    /\ HasReady(server[pass.name].status, "True", "Reconciled")

\* every status write of either controller sets a condition first: a stored
\* status with a condition has been written by a pass
HasHadStatusWrite(status) == status.conditions # <<>>

\* C17 (as claimed): the stored phase of a resource whose status has been
\* written is Running or Error for an SftpGoServer and Pending, Error or
\* Synced for an SftpGoUser.
C17_PhaseEnumerated ==
    /\ \A k \in ServerKeys :
          HasHadStatusWrite(server[k].status)
          => server[k].status.phase \in {"Running", "Error"}
    /\ \A u \in Users :
          HasHadStatusWrite(user[u].status)
          => user[u].status.phase \in {"Pending", "Error", "Synced"}

----------------------------------------------------------------------------
(* Repeating a pass *)

\* the stored status of u is that of a full success
StoredSynced(u) ==
    /\ HasReady(user[u].status, "True", "Synced")
    /\ user[u].status.phase = "Synced"

\* the service holds for u what a pass over u's spec and secrets leaves
\* there: the resolved password if there is one, and the resolved keys
InSync(u) ==
    /\ RemoteEntity(u).exists
    /\ ResolvedPassword(u) # "" => RemoteEntity(u).password = ResolvedPassword(u)
    /\ RemoteEntity(u).public_keys = ResolvedKeys(u)

\* C18: a pass over a Synced user whose spec, secrets and remote user are as
\* the earlier pass left them sends one get and then one update, no create;
\* the service's state after it is the state before it (same identifier, same
\* password, same keys), and the stored status stays Ready=True, Synced.
C18_RepeatedPassIsIdempotent ==
    [][\A u \in Users :
         (/\ IsUserPass(u) /\ ReachesRemote(u) /\ RemoteAnswered
          /\ StoredSynced(u) /\ InSync(u))
         => (/\ Len(pass'.calls) = 2
             /\ pass'.calls[1].method = "GET" /\ pass'.calls[1].code = StatusOK
             /\ pass'.calls[2].method = "PUT" /\ pass'.calls[2].code = StatusOK
             /\ remote' = remote
             /\ ~pass'.err
             /\ HasReady(user'[u].status, "True", "Synced")
             /\ user'[u].status.phase = "Synced")]_vars

\* C18 happens: a pass found a Synced user, sent a get and an update, and
\* the user is Synced still, its remote user holding the resolved password.
C18_Witness ==
    /\ pass.kind = "user" /\ pass.found = "Synced"
    /\ Len(pass.calls) = 2 /\ pass.calls[2].method = "PUT"
    /\ pass.calls[2].code = StatusOK
    /\ ~pass.err /\ pass.accepted
    /\ StoredSynced(pass.name) /\ InSync(pass.name)
    /\ ResolvedPassword(pass.name) # ""
    /\ user[pass.name].status.userID = RemoteEntity(pass.name).id

----------------------------------------------------------------------------
(* Retries *)

\* the last pass over u ended with ServerNotFound, and u is as it left it
ParkedOnServerNotFound(u) ==
    /\ Active(u)
    /\ HasReady(user[u].status, "False", "ServerNotFound")

\* u's spec and secrets resolve to a password or a public key
HasCredentials(u) ==
    /\ CredentialsReadable(u)
    /\ (ResolvedPassword(u) # "" \/ ResolvedKeys(u) # <<>>)

\* C19 (as claimed): when the server a user was missing is in the store,
\* with admin credentials that resolve, the user, unchanged, gets a new pass
\* and reaches Synced (unless it is deleted or the server leaves again).
C19_ServerAppearsThenSynced ==
    \A u \in SpecUsers :
        (ParkedOnServerNotFound(u) /\ AdminCredentialsResolved(u)
         /\ HasCredentials(u))
        ~> (StoredSynced(u) \/ ~Active(u) \/ ~AdminCredentialsResolved(u))

\* a step in which no user pass meets a failure: the object store answers
\* every request of the pass, and the remote service truthfully
HealthyStep ==
    \A u \in Users : IsUserPass(u) => (StoreAnswered /\ RemoteAnswered)

\* the last pass was over u, active still, and ended with APIError and an
\* error: a request to the service failed
FailedOnRemote(u) ==
    /\ pass.kind = "user" /\ pass.name = u
    /\ pass.err /\ HasReady(pass.written, "False", "APIError")
    /\ Active(u)

\* C20: a pass over an active user in which the get, the create or the
\* update fails writes Ready=False, APIError, phase Error, returns an error
\* and leaves the user queued; and in every behaviour in which, from some
\* point on, the store and the service answer every pass, a user whose pass
\* so failed and whose spec resolves to credentials reaches Synced with its
\* remote user present (unless it is deleted or its server or admin secret
\* goes).
C20_FailedRequestIsRetried ==
    /\ [][\A u \in Users :
            (IsUserPass(u) /\ Active(u) /\ ~RemoteAnswered)
            => (/\ pass'.statusWrite
                /\ HasReady(pass'.written, "False", "APIError")
                /\ pass'.written.phase = "Error"
                /\ pass'.accepted => user'[u].status = pass'.written
                /\ pass'.err
                /\ u \in queue')]_vars
    /\ <>[][HealthyStep]_vars
       => \A u \in SpecUsers :
             (FailedOnRemote(u) /\ AdminCredentialsResolved(u) /\ HasCredentials(u))
             ~> (\/ StoredSynced(u) /\ RemoteEntity(u).exists
                 \/ ~Active(u)
                 \/ ~AdminCredentialsResolved(u))

\* C20 happens: a pass found the user at APIError, and left it Synced with
\* its remote user present.
C20_Witness ==
    /\ pass.kind = "user" /\ pass.found = "APIError"
    /\ ~pass.err /\ pass.accepted
    /\ StoredSynced(pass.name)
    /\ RemoteEntity(pass.name).exists

----------------------------------------------------------------------------
(* Answers of the remote service *)

\* the service refused the admin credentials in a request of the pass
Unauthorized ==
    \E i \in DOMAIN pass'.calls :
        /\ pass'.calls[i].method \in {"GET", "POST", "PUT"}
        /\ pass'.calls[i].code = 401

\* C21 (as claimed): a pass over an active user in which the service answers
\* the get, the create or the update with 401 writes a Ready=False condition
\* whose reason is not the one of a transient failure (APIError), and ends
\* with no error and no requeue.
C21_UnauthorizedIsNotRetried ==
    [][\A u \in Users :
         (IsUserPass(u) /\ Active(u) /\ Unauthorized)
         => (/\ pass'.statusWrite
             /\ ReadyReason(pass'.written) \notin {"", "APIError"}
             /\ ~pass'.err /\ ~pass'.requeue)]_vars

----------------------------------------------------------------------------
(* The children follow the spec *)

\* the content of the child of this kind that the spec of s asks for
DesiredChild(s, kind) ==
    IF kind = "ConfigMap" THEN configMapForServer(s)
    ELSE IF kind = "PersistentVolumeClaim" THEN pvcForServer(s)
    ELSE IF kind = "Deployment" THEN deploymentForServer(s)
    ELSE serviceForServer(s)

\* C22 (as claimed): a server pass that ends in full success leaves every
\* child the spec asks for (ConfigMap, PersistentVolumeClaim with a data
\* volume, Deployment, Service) with the content computed from the spec the
\* pass read, however often the spec changed before.
C22_ChildrenFollowSpec ==
    [][\A k \in ServerKeys :
         (IsServerPass(k) /\ ActiveServer(k) /\ ServerPassSucceeded)
         => \A i \in DOMAIN ExpectedChildren(server[k].spec) :
               LET kind == ExpectedChildren(server[k].spec)[i]
               IN  /\ child'[k][kind].exists
                   /\ child'[k][kind].data = DesiredChild(server[k], kind)]_vars

----------------------------------------------------------------------------
(* Passes of different users *)

\* C23: when the passes of two users with different usernames, on one server
\* or on two, have both ended, whatever the order of their steps, the
\* services hold the entities and the users the statuses that the two passes
\* leave when one runs after the other, in either order.
C23_InterleavingEqualsSerial ==
    (\A u \in Users : flight.at[u].pc = "done")
    => \A a, b \in Users :
          a # b => /\ remote = OneAfterTheOther(a, b).remote
                   /\ \A u \in Users :
                         user[u].status = OneAfterTheOther(a, b).status[u]

\* C23 happens: both passes have ended on the same server, one created its
\* user and the other updated the one it found, and both are Synced.
C23_Witness ==
    /\ \A u \in Users : flight.at[u].pc = "done" /\ StoredSynced(u)
    /\ ServerRefKey(user["u1"]) = ServerRefKey(user["u2"])
    /\ flight.at["u1"].existing.exists
    /\ ~flight.at["u2"].existing.exists
    /\ RemoteEntity("u2").exists

----------------------------------------------------------------------------
(* Ownership of the children *)

\* C24: every child a server pass has written (created, updated or adopted)
\* is, after the pass, under the control of that server; and when the server
\* leaves the store, every child it controls leaves with it.
C24_ChildrenAreOwned ==
    [][\A k \in ServerKeys :
         /\ IsServerPass(k)
            => \A kind \in ChildKinds :
                  (child'[k][kind] # child[k][kind] /\ child'[k][kind].exists)
                  => child'[k][kind].owner = k
         /\ (IsServerPass(k) /\ ServerPassSucceeded)
            => \A i \in DOMAIN pass'.childWrites :
                  child'[k][pass'.childWrites[i]].owner = k
         /\ (server[k].exists /\ ~server'[k].exists)
            => \A kind \in ChildKinds :
                  child[k][kind].owner = k => ~child'[k][kind].exists]_vars

\* C24 happens: a pass went all the way over a server whose ConfigMap was in
\* the namespace before it, left by hand; the server controls it now, with
\* the Deployment and the Service.
C24_Witness ==
    /\ pass.kind = "server" /\ pass.statusWrite /\ ~pass.err
    /\ Len(pass.childWrites) >= 3
    /\ \A i \in DOMAIN pass.childWrites :
          /\ child[pass.name][pass.childWrites[i]].exists
          /\ child[pass.name][pass.childWrites[i]].owner = pass.name
    /\ child[<<"ns1", "s1">>]["ConfigMap"].exists
    /\ child[<<"ns1", "s1">>]["ConfigMap"].owner = NoOwner

----------------------------------------------------------------------------
(* Defaults of the server spec *)

\* C25: the effective spec of a pass has the image
\* docker.io/drakkan/sftpgo:latest, one replica, SFTP port 2022, web port
\* 8080 and the sqlite backend where the stored spec leaves the field unset,
\* and the stored value everywhere else; defaulting the effective spec again
\* changes nothing; the pass leaves the stored spec as it was, and what it
\* applies carries the effective values.
C25_DefaultsFillUnsetFields ==
    [][\A k \in ServerKeys :
         (IsServerPass(k) /\ ActiveServer(k))
         => LET spec == server[k].spec
                eff == applyDefaults(spec)
            IN  /\ eff.image = IF spec.image = "" THEN "docker.io/drakkan/sftpgo:latest"
                               ELSE spec.image
                /\ eff.replicas = IF spec.replicas = <<>> THEN <<1>> ELSE spec.replicas
                /\ eff.sftpPort = IF spec.sftpPort = 0 THEN 2022 ELSE spec.sftpPort
                /\ eff.webPort = IF spec.webPort = 0 THEN 8080 ELSE spec.webPort
                /\ eff.storageBackend = IF spec.storageBackend = "" THEN "sqlite"
                                        ELSE spec.storageBackend
                /\ \A f \in DOMAIN spec :
                      f \notin {"image", "replicas", "sftpPort", "webPort",
                                "storageBackend"} => eff[f] = spec[f]
                /\ applyDefaults(eff) = eff
                /\ server'[k].spec = spec
                /\ child'[k]["Deployment"] # child[k]["Deployment"]
                   => /\ child'[k]["Deployment"].data.image = eff.image
                      /\ child'[k]["Deployment"].data.replicas = eff.replicas[1]
                /\ child'[k]["ConfigMap"] # child[k]["ConfigMap"]
                   => child'[k]["ConfigMap"].data.config.driver = eff.storageBackend]_vars

\* C25 happens: a pass over a server whose spec names a backend and a web
\* port, and nothing else, has applied a Deployment of one replica of the
\* default image and a ConfigMap with the named backend.
C25_Witness ==
    /\ pass.kind = "server" /\ pass.statusWrite /\ ~pass.err
    /\ LET k == pass.name
       IN
        /\ server[k].exists
        /\ server[k].spec.image = "" /\ server[k].spec.replicas = <<>>
        /\ server[k].spec.sftpPort = 0 /\ server[k].spec.webPort = 9090
        /\ server[k].spec.storageBackend = "postgresql"
        /\ child[k]["Deployment"].exists
        /\ child[k]["Deployment"].data.image = "docker.io/drakkan/sftpgo:latest"
        /\ child[k]["Deployment"].data.replicas = 1
        /\ child[k]["ConfigMap"].data.config.driver = "postgresql"

----------------------------------------------------------------------------
(* The ports of a server *)

\* C26: after a pass that went all the way, the SFTP port is config.sftp.port
\* when that is set and the top-level field or 2022 otherwise, the web port is
\* config.http.port when that is set and the top-level field or 8080
\* otherwise, and each is the same in the listener of the ConfigMap's
\* configuration, the container port of the Deployment, the port and the
\* target port of the Service, and status.ports.
C26_PortOverrideEverywhere ==
    [][\A k \in ServerKeys :
         (IsServerPass(k) /\ ActiveServer(k) /\ ServerPassSucceeded)
         => LET spec == server[k].spec
                sftp == IF spec.configSftpPort > 0 THEN spec.configSftpPort
                        ELSE IF spec.sftpPort # 0 THEN spec.sftpPort ELSE 2022
                web == IF spec.configHttpPort > 0 THEN spec.configHttpPort
                       ELSE IF spec.webPort # 0 THEN spec.webPort ELSE 8080
            IN  /\ child'[k]["ConfigMap"].data.config.sftpdPort = sftp
                /\ child'[k]["ConfigMap"].data.config.httpdPort = web
                /\ child'[k]["Deployment"].data.sftpPort = sftp
                /\ child'[k]["Deployment"].data.webPort = web
                /\ child'[k]["Service"].data.sftpPort = sftp
                /\ child'[k]["Service"].data.sftpTargetPort = sftp
                /\ child'[k]["Service"].data.webPort = web
                /\ child'[k]["Service"].data.webTargetPort = web
                /\ pass'.written.ports.sftp = sftp
                /\ pass'.written.ports.web = web]_vars

----------------------------------------------------------------------------
(* Bandwidth limits in the payload *)

\* C27 as stated: in every create and update a pass sends, upload_bandwidth
\* is the upload limit divided by 1024 and rounded down, download_bandwidth
\* the download limit likewise, and both are 0 when the spec has no
\* bandwidthLimits.
C27_BandwidthIsFloor ==
    [][\A u \in Users :
         IsUserPass(u)
         => \A i \in DOMAIN pass'.calls :
               pass'.calls[i].method \in {"POST", "PUT"}
               => LET bl == user[u].spec.bandwidthLimits
                      p == pass'.calls[i].payload
                  IN  /\ p.upload_bandwidth =
                            IF bl = <<>> THEN 0 ELSE bl[1].upload \div 1024
                      /\ p.download_bandwidth =
                            IF bl = <<>> THEN 0 ELSE bl[1].download \div 1024]_vars

\* C27, amended: in every create and update a pass sends, each bandwidth is
\* the limit of the spec divided by 1024 with the quotient truncated toward
\* zero: rounded down for a limit of 0 or more (1048576 gives 1024, 1023 gives
\* 0) and rounded up for a negative one (-1 gives 0); both are 0 when the spec
\* has no bandwidthLimits.
C27_BandwidthIsTruncated ==
    [][\A u \in Users :
         IsUserPass(u)
         => \A i \in DOMAIN pass'.calls :
               pass'.calls[i].method \in {"POST", "PUT"}
               => LET bl == user[u].spec.bandwidthLimits
                      p == pass'.calls[i].payload
                      kb(n) == CHOOSE q \in -1024 .. 1024 :
                                  /\ (n >= 0 => 1024 * q <= n /\ n < 1024 * (q + 1))
                                  /\ (n < 0 => 1024 * q >= n /\ n > 1024 * (q - 1))
                  IN  /\ p.upload_bandwidth = IF bl = <<>> THEN 0 ELSE kb(bl[1].upload)
                      /\ p.download_bandwidth =
                            IF bl = <<>> THEN 0 ELSE kb(bl[1].download)]_vars

\* C27 happens: a create went out for a user limited to 1048576 bytes/sec up
\* and 1023 bytes/sec down, with 1024 and 0 in the payload.
C27_Witness ==
    /\ pass.kind = "user" /\ Len(pass.calls) = 2
    /\ pass.calls[2].method = "POST"
    /\ user[pass.name].spec.bandwidthLimits =
          <<[upload |-> 1048576, download |-> 1023]>>
    /\ pass.calls[2].payload.upload_bandwidth = 1024
    /\ pass.calls[2].payload.download_bandwidth = 0

----------------------------------------------------------------------------
(* Where the credentials of a user come from *)

\* C28: in a pass that has the admin credentials of its server, the password
\* of every create and update is the inline password when there is one, else
\* the value under the referenced secret in the user's namespace, else empty;
\* the public keys are the inline list when there is one, else the lines of
\* the referenced secret without the blank and the # lines, trimmed and in
\* their order, else none. A secret that is not in the store makes the pass
\* return an error before any request when it is needed, and makes no
\* difference when the inline value is there.
C28_CredentialPrecedence ==
    [][\A u \in Users :
         (IsUserPass(u) /\ Active(u) /\ StoreAnswered /\ AdminCredentialsResolved(u))
         => LET spec == user[u].spec
                pwSecret == secret[<<user[u].namespace, spec.passwordSecretRef>>]
                keySecret == secret[<<user[u].namespace, spec.publicKeysSecretRef>>]
                needsPwSecret == spec.password = "" /\ spec.passwordSecretRef # ""
                needsKeySecret == spec.publicKeys = <<>> /\ spec.publicKeysSecretRef # ""
                missing == \/ needsPwSecret /\ ~pwSecret.exists
                           \/ needsKeySecret /\ ~keySecret.exists
                kept == SelectSeq(keySecret.authorized_keys,
                                  LAMBDA l : l \notin {"", "# team keys", "#"})
                password == IF spec.password # "" THEN spec.password
                            ELSE IF needsPwSecret THEN pwSecret.password ELSE ""
                keys == IF spec.publicKeys # <<>> THEN spec.publicKeys
                        ELSE IF needsKeySecret
                        THEN [i \in DOMAIN kept |->
                                 IF kept[i] = " ssh-k2 " THEN "ssh-k2" ELSE kept[i]]
                        ELSE <<>>
            IN  /\ missing => pass'.err /\ pass'.calls = <<>>
                /\ ~missing
                   => /\ pass'.calls # <<>>
                      /\ \A i \in DOMAIN pass'.calls :
                            pass'.calls[i].method \in {"POST", "PUT"}
                            => /\ pass'.calls[i].payload.password = password
                               /\ pass'.calls[i].payload.public_keys = keys]_vars

\* C28 happens: a create went out for a spec that has an inline password,
\* names the secret for the password too, and names it for the keys: with
\* the inline password, not the secret's, and with the two keys of the
\* secret's four lines.
C28_Witness ==
    /\ pass.kind = "user" /\ Len(pass.calls) = 2
    /\ pass.calls[2].method = "POST"
    /\ user[pass.name].spec.password = "pw-inline"
    /\ user[pass.name].spec.passwordSecretRef # ""
    /\ secret[<<user[pass.name].namespace, CredsSecretName>>].password = "pw-secret"
    /\ user[pass.name].spec.publicKeys = <<>>
    /\ user[pass.name].spec.publicKeysSecretRef # ""
    /\ pass.calls[2].payload.password = "pw-inline"
    /\ pass.calls[2].payload.public_keys = <<"ssh-k2", "ssh-k3">>

----------------------------------------------------------------------------
(* The content of the ConfigMap *)

\* C29: the content a pass gives the ConfigMap is the one built from the
\* spec alone, the same for the server as it is stored and for a new server
\* of the same spec; and of two passes in a row over the same server, with no
\* change of its spec between them, the second leaves the content the first
\* one wrote.
C29_ConfigMapFollowsSpecOnly ==
    [][\A k \in ServerKeys :
         LET wrote(p) == /\ p.kind = "server" /\ p.name = k
                         /\ p.childWrites # <<>> /\ p.storeFault # "ConfigMap"
         IN  (wrote(pass') /\ child'[k]["ConfigMap"].owner = k)
             => /\ child'[k]["ConfigMap"].data = configMapForServer(server[k])
                /\ child'[k]["ConfigMap"].data =
                      configMapForServer(NewServer(server[k].spec))
                /\ (wrote(pass) /\ child[k]["ConfigMap"].owner = k)
                   => child'[k]["ConfigMap"].data = child[k]["ConfigMap"].data]_vars

\* C29 happens: the second of two passes in a row has applied the ConfigMap
\* of a server that is Running, over the content of the first.
C29_Witness ==
    /\ pass.kind = "server" /\ pass.found = "Reconciled"
    /\ pass.childWrites # <<>> /\ pass.storeFault # "ConfigMap"
    /\ server[pass.name].exists /\ server[pass.name].status.phase = "Running"
    /\ child[pass.name]["ConfigMap"].owner = pass.name
    /\ child[pass.name]["ConfigMap"].data = configMapForServer(server[pass.name])

----------------------------------------------------------------------------
(* The finalizer of a user *)

\* C30: the finalizer of a user leaves only in a pass over the user while its
\* deletion is requested, and only when that pass sent a delete the service
\* answered with 200, or sent none because the server is not in the store or
\* its admin credentials do not resolve; a deletion pass whose delete was
\* answered otherwise, or that could not read the server, leaves the user as
\* it was, finalizer included, and returns an error.
C30_FinalizerLeavesAfterCleanup ==
    [][\A u \in Users :
         LET had == user[u].exists /\ sftpgoUserFinalizer \in user[u].finalizers
             has == user'[u].exists /\ sftpgoUserFinalizer \in user'[u].finalizers
             deletes == {i \in DOMAIN pass'.calls : pass'.calls[i].method = "DELETE"}
         IN  /\ (had /\ ~has)
                => /\ IsUserPass(u) /\ user[u].deleting
                   /\ \/ /\ pass'.calls = <<>>
                         /\ \/ ~server[ReferencedServer(u)].exists
                            \/ AdminCredentialsUnresolved(u)
                      \/ /\ Len(pass'.calls) = 1 /\ deletes = {1}
                         /\ pass'.calls[1].code = 200
             /\ (/\ IsUserPass(u) /\ Terminating(u)
                 /\ \/ \E i \in deletes : pass'.calls[i].code # 200
                    \/ pass'.storeFault = "getServer")
                => (user'[u] = user[u] /\ pass'.err)]_vars

\* C30 happens: a deletion pass got a 500 for its delete, returned the error
\* and left the user in the store, deleting, with its finalizer.
C30_Witness ==
    /\ pass.kind = "user" /\ pass.err
    /\ Len(pass.calls) = 1 /\ pass.calls[1].method = "DELETE"
    /\ pass.calls[1].code = 500
    /\ user[pass.name].exists /\ user[pass.name].deleting
    /\ sftpgoUserFinalizer \in user[pass.name].finalizers

----------------------------------------------------------------------------
(* Phase and Ready condition of a user *)

\* C31: in every status of a user in the store, the phase is Synced exactly
\* when the condition Ready is True, and with the phase Error or Pending the
\* condition Ready is there and is False; whatever passes came before, those
\* that returned before any status and those whose write was refused
\* included.
C31_PhaseAgreesWithReady ==
    \A u \in Users :
        user[u].exists
        => LET st == user[u].status
               ready(v) == \E i \in DOMAIN st.conditions :
                              /\ st.conditions[i].type = "Ready"
                              /\ st.conditions[i].status = v
           IN  /\ (st.phase = "Synced") <=> ready("True")
               /\ st.phase \in {"Error", "Pending"} => ready("False")
               /\ ~(ready("True") /\ ready("False"))

\* C31 happens: a user that was Synced when the pass found it has the phase
\* Error and Ready False in the store, the write of the pass taken.
C31_Witness ==
    /\ pass.kind = "user" /\ pass.found = "Synced"
    /\ pass.statusWrite /\ pass.accepted
    /\ user[pass.name].exists
    /\ user[pass.name].status.phase = "Error"
    /\ \E i \in DOMAIN user[pass.name].status.conditions :
          /\ user[pass.name].status.conditions[i].type = "Ready"
          /\ user[pass.name].status.conditions[i].status = "False"

----------------------------------------------------------------------------
(* Two resources for one remote user: deletion of one *)

\* C32: when a deletion pass over one of two users that name the same
\* username on the same server has ended, the other one, if it is in the
\* store with Ready True, still has its entity on the service.
C32_SharedEntitySurvivesDeletion ==
    [][\A a, b \in Users :
         (/\ a # b
          /\ IsUserPass(a) /\ Terminating(a)
          /\ ReferencedServer(a) = ReferencedServer(b)
          /\ user[a].spec.username = user[b].spec.username
          /\ user'[b].exists /\ ~user'[b].deleting
          /\ HasReady(user'[b].status, "True", "Synced"))
         => remote'[ReferencedServer(b)][user[b].spec.username].exists]_vars

----------------------------------------------------------------------------
(* The loop of a Synced user *)

\* C33: a pass over a Synced user whose status holds the identifier of its
\* remote user, with the spec, the secrets and the service as the earlier
\* pass left them, writes a status that is the stored one: the resource is
\* not changed by the pass and gets no further pass from it.
C33_RepeatPassQuiesces ==
    [][\A u \in Users :
         (/\ IsUserPass(u) /\ Active(u)
          /\ StoredSynced(u) /\ InSync(u)
          /\ user[u].status.userID = RemoteEntity(u).id
          /\ UserPassSucceeded)
         => (user'[u] = user[u] /\ u \notin queue')]_vars

----------------------------------------------------------------------------
(* What a deleted user leaves on the services *)

\* C38: when a deletion pass that sent its delete and got 200 has removed
\* the finalizer, no service holds a user any more: every remote user there
\* was had been created by a pass of this resource, under the username and
\* the server reference its spec had at the time.
C38_NoRemoteUserLeftBehind ==
    [][\A u \in Users :
         (/\ IsUserPass(u) /\ Terminating(u)
          /\ Len(pass'.calls) = 1 /\ pass'.calls[1].method = "DELETE"
          /\ pass'.calls[1].code = 200
          /\ ~user'[u].exists)
         => \A k \in ServerKeys, n \in Usernames : ~remote'[k][n].exists]_vars

----------------------------------------------------------------------------
(* Ready and Degraded of a server *)

\* C34: no status of a server in the store holds the condition Ready with
\* status True together with the condition Degraded with status True.
C34_ReadyExcludesDegraded ==
    \A k \in ServerKeys :
        server[k].exists
        => LET holds(type) == \E i \in DOMAIN server[k].status.conditions :
                                 /\ server[k].status.conditions[i].type = type
                                 /\ server[k].status.conditions[i].status = "True"
           IN  ~(holds("Ready") /\ holds("Degraded"))

----------------------------------------------------------------------------
(* The port the user controller calls *)

\* C35: when a pass over a user, for a sync or for a deletion, sends
\* requests to the service of a server that a server pass has brought to
\* Ready, the port of its base URL is the web port of the Service, of the
\* container of the Deployment, and of status.ports.web.
C35_UserPassCallsServicePort ==
    [][\A u \in Users :
         LET k == ReferencedServer(u)
         IN  (/\ IsUserPass(u) /\ pass'.calls # <<>>
              /\ server[k].exists
              /\ HasReady(server[k].status, "True", "Reconciled")
              /\ child[k]["Service"].exists /\ child[k]["Deployment"].exists)
             => /\ pass'.baseURLPort = child[k]["Service"].data.webPort
                /\ pass'.baseURLPort = child[k]["Deployment"].data.webPort
                /\ pass'.baseURLPort = server[k].status.ports.web]_vars

----------------------------------------------------------------------------
(* Objects of another controller *)

\* C36: a server pass leaves an object that has the name of one of its
\* children and is controlled by another owner exactly as it is; and the
\* pass of a server that is not being deleted, with such an object among its
\* children, ends at the first of them it comes to: it returns an error and
\* reports no full success.
C36_ForeignObjectIsLeftAlone ==
    [][\A k \in ServerKeys, kind \in ChildKinds :
         (/\ IsServerPass(k)
          /\ child[k][kind].exists
          /\ child[k][kind].owner \notin {NoOwner, k})
         => /\ child'[k][kind] = child[k][kind]
            /\ (/\ ActiveServer(k) /\ StoreAnswered
                /\ \E i \in DOMAIN ExpectedChildren(server[k].spec) :
                      ExpectedChildren(server[k].spec)[i] = kind)
               => /\ pass'.err
                  /\ pass'.childWrites # <<>>
                  /\ LET last == pass'.childWrites[Len(pass'.childWrites)]
                     IN  /\ child[k][last].exists
                         /\ child[k][last].owner \notin {NoOwner, k}
                  /\ ~HasReady(pass'.written, "True", "Reconciled")]_vars

\* C36 happens: a pass applied the ConfigMap of its server, came to a
\* Deployment of another controller, and returned an error; the Deployment
\* is still the other controller's.
C36_Witness ==
    /\ pass.kind = "server" /\ pass.err /\ pass.storeFault = "none"
    /\ Len(pass.childWrites) >= 2
    /\ pass.childWrites[Len(pass.childWrites)] = "Deployment"
    /\ child[pass.name]["ConfigMap"].owner = pass.name
    /\ child[pass.name]["Deployment"].exists
    /\ child[pass.name]["Deployment"].owner = <<pass.name[1], "another">>
    /\ child[pass.name]["Deployment"].data = NoChild.data

----------------------------------------------------------------------------
(* A bandwidth limit below one KB/s *)

\* C37: in every create and update a pass sends, a limit of the spec that is
\* greater than 0 gives a bandwidth greater than 0 in the payload, for the
\* upload and for the download.
C37_LimitNeverBecomesUnlimited ==
    [][\A u \in Users :
         (IsUserPass(u) /\ user[u].spec.bandwidthLimits # <<>>)
         => \A i \in DOMAIN pass'.calls :
               pass'.calls[i].method \in {"POST", "PUT"}
               => /\ user[u].spec.bandwidthLimits[1].upload > 0
                     => pass'.calls[i].payload.upload_bandwidth > 0
                  /\ user[u].spec.bandwidthLimits[1].download > 0
                     => pass'.calls[i].payload.download_bandwidth > 0]_vars

====
